---- MODULE Spec2Model ----
(***************************************************************************)
(* A model of the schema nodes of specflow's _archieve package:            *)
(*   Schema        (src/_archieve/schema.py)                               *)
(*   ArraySchema   (src/_archieve/array_schema.py)                         *)
(*   ObjectSchema  (src/_archieve/object_schema.py)                        *)
(*                                                                         *)
(* A constructor call is a class name and a record of the keyword          *)
(* arguments that are not None (a keyword left out and a keyword passed    *)
(* as None are the same call).  Python values are tagged records           *)
(* [k |-> kind, v |-> payload].  A str is a sequence of tokens; each token *)
(* stands for the characters it spells, so that strip(), the anchor        *)
(* pattern and urlparse() can be computed as the library computes them.    *)
(* A list or dict passed as a keyword argument is an object with identity: *)
(* the constructor stores the reference, and the caller keeps one too.     *)
(* A list or dict inside such an object is part of its content, and is     *)
(* reached by whoever reaches the object.                                  *)
(***************************************************************************)
EXTENDS Integers, Sequences, FiniteSets, TLC

VARIABLES
    held,    \* the nodes the caller obtained from successful constructions
    store,   \* the contents of the lists and dicts the caller passed, by identity
    last,    \* the most recent constructor call and how it ended
    out      \* the most recent to_dict call: the node's index and the mapping
             \* returned, and the same of the to_dict call directly before it

vars == <<held, store, last, out>>

---------------------------------------------------------------------------
(* Bounds of the model *)

\* largest integer drawn for a bound keyword (minItems, maxContains, ...)
MaxInt == 2
\* longest token string drawn for a reference keyword
MaxStrLen == 4
\* longest list drawn for a composition keyword
MaxLen == 2
\* number of nodes the caller holds at once in the lifecycle specification
MaxHeld == 2
\* largest number of keywords drawn together from the whole signature
MaxKw == 2
\* number of to_dict calls in a row on one node
MaxCalls == 2

---------------------------------------------------------------------------
(* Python values *)

PyStr(s)   == [k |-> "str", v |-> s]
PyInt(i)   == [k |-> "int", v |-> i]
PyBool(b)  == [k |-> "bool", v |-> b]
PyFloat(i) == [k |-> "float", v |-> i]
PyList(s)  == [k |-> "list", v |-> s]
PyDict(s)  == [k |-> "dict", v |-> s]
Node(c, f) == [k |-> "node", v |-> [cls |-> c, f |-> f]]
\* a list or dict held by reference: v is its index in store
ListRef(i) == [k |-> "listref", v |-> i]
DictRef(i) == [k |-> "dictref", v |-> i]

\* isinstance(x, str), isinstance(x, bool), isinstance(x, int): a bool is an int
IsStr(x)  == x.k = "str"
IsBool(x) == x.k = "bool"
IsInt(x)  == x.k \in {"int", "bool"}
IsList(x) == x.k \in {"list", "listref"}
IsDict(x) == x.k \in {"dict", "dictref"}
\* the integer a bool or int compares as
IntVal(x) == IF x.k = "bool" THEN (IF x.v THEN 1 ELSE 0) ELSE x.v

\* isinstance(x, Schema): every node;  isinstance(x, ArraySchema): that class only
IsSchema(x)      == x.k = "node"
\* isinstance(x, Schema) where the code asks for isinstance(x, ArraySchema)
IsArraySchemaAnyNode(x) == x.k = "node"

IsArraySchema(x) == x.k = "node" /\ x.v.cls = "ArraySchema"

\* bool(x) is False, for the values a caller can write as a literal
Falsy == {PyInt(0), PyFloat(0), PyBool(FALSE), PyStr(<<>>), PyList(<<>>), PyDict(<<>>)}

\* "if x:" in the place of "if x is not None:"
HasTruthy(kw, n) == n \in DOMAIN kw /\ kw[n] \notin Falsy

\* x is not None, for a keyword argument or an attribute
Has(kw, n) == n \in DOMAIN kw

\* the elements of a list and the <<key, value>> entries of a dict, through the reference
Content(x, st) == IF x.k \in {"listref", "dictref"} THEN st[x.v] ELSE x.v

---------------------------------------------------------------------------
(* Strings: sequences of tokens *)

\* characters for which str.strip() and the C0-or-space lstrip of urlsplit remove
Whitespace == {" ", "\n"}

\* not s.strip(): the string is empty or whitespace only
IsBlank(s) == \A i \in 1..Len(s) : s[i] \in Whitespace

\* tokens all of whose characters are in [a-zA-Z0-9_-], and those starting [a-zA-Z]
WordTokens   == {"a", "1", "-", "_", "zip"}
LetterTokens == {"a", "zip"}

\* the one element of a singleton set: Once of the set of e for v in {x} is e
\* with v bound to the value of x, computed once
Once(S) == CHOOSE r \in S : TRUE

RECURSIVE Text(_)
\* the string an f-string makes of s: its tokens, one after the other
Text(s) == IF s = <<>> THEN "" ELSE Head(s) \o Text(Tail(s))

\* the index of the first token of s that is in T, or Len(s) + 1
FirstIn(s, T) ==
    LET I == {i \in 1..Len(s) : s[i] \in T}
    IN  IF I = {} THEN Len(s) + 1 ELSE CHOOSE i \in I : \A j \in I : i <= j

AllTokens == {"a", "1", "-", "_", "#", " ", "\n", "//", "[", "]", "v1.a", "(", ")", "zip"}

\* url.lstrip(_WHATWG_C0_CONTROL_OR_SPACE) of urlsplit
LStrip(s) == SubSeq(s, FirstIn(s, AllTokens \ Whitespace), Len(s))

\* url.replace(b, "") for the unsafe bytes tab, CR, LF of urlsplit
RemoveUnsafe(s) == SelectSeq(s, LAMBDA t : t # "\n")

\* urlparse(s) raises ValueError.  No token holds a ':', so no scheme is split off.
\* With a leading "//" the netloc runs to the next '/' or '#' (no token holds
\* a '?'), and is checked for
\* brackets: one without the other is "Invalid IPv6 URL"; with both, the text
\* between the first '[' and the next ']' must be an IPvFuture literal (it
\* starts with 'v': the token "v1.a") or parse as an IPv6 address, which no
\* sequence of the other tokens does.
UrlparseRaisesBracketsAlways(s) ==
    LET u == RemoveUnsafe(LStrip(s))
    IN  /\ u # <<>>
        /\ Head(u) = "//"
        /\ LET rest   == Tail(u)
               netloc == SubSeq(rest, 1, FirstIn(rest, {"//", "#"}) - 1)
           IN  \E i \in 1..Len(netloc) : netloc[i] \in {"[", "]"}

UrlparseRaises(s) ==
    LET u == RemoveUnsafe(LStrip(s))
    IN  /\ u # <<>>
        /\ Head(u) = "//"
        /\ LET rest   == Tail(u)
               netloc == SubSeq(rest, 1, FirstIn(rest, {"//", "#"}) - 1)
               hasL   == \E i \in 1..Len(netloc) : netloc[i] = "["
               hasR   == \E i \in 1..Len(netloc) : netloc[i] = "]"
               after  == SubSeq(netloc, FirstIn(netloc, {"["}) + 1, Len(netloc))
               host   == SubSeq(after, 1, FirstIn(after, {"]"}) - 1)
           IN  \/ hasL /\ ~hasR
               \/ hasR /\ ~hasL
               \/ hasL /\ hasR /\ (host = <<>> \/ Head(host) # "v1.a")

\* Schema._is_valid_uri: bool(urlparse(uri)) is True for every parse result
IsValidUri(s) == ~UrlparseRaises(s)

\* Schema._is_valid_uri_reference
IsValidUriReference(s) == ~UrlparseRaises(s)

\* Schema._is_valid_anchor: no '#', and re.match(r"^[a-zA-Z][a-zA-Z0-9_-]*$"),
\* where '$' also matches just before a newline that ends the string
IsValidAnchor(s) ==
    /\ \A i \in 1..Len(s) : s[i] # "#"
    /\ s # <<>>
    /\ s[1] \in LetterTokens
    /\ LET n == IF Len(s) >= 2 /\ s[Len(s)] = "\n" THEN Len(s) - 1 ELSE Len(s)
       IN  \A i \in 1..n : s[i] \in WordTokens

---------------------------------------------------------------------------
(* How a constructor ends: it returns (exc = "ok") or raises exc with msg *)

Ok            == [exc |-> "ok", msg |-> ""]
ValueError(m) == [exc |-> "ValueError", msg |-> m]
TypeError(m)  == [exc |-> "TypeError", msg |-> m]

\* statement sequencing: the first check that raises ends the constructor
FirstRaise(checks) ==
    Once({
        LET bad == {i \in 1..Len(cs) : cs[i].exc # "ok"}
        IN  IF bad = {} THEN Ok
            ELSE cs[CHOOSE i \in bad : \A j \in bad : i <= j]
      : cs \in {checks}})

---------------------------------------------------------------------------
(* Schema.__init__ : src/_archieve/schema.py *)

\* lines 34-44: $id and $schema
CheckUri(kw, n, name) ==
    IF ~Has(kw, n) THEN Ok
    ELSE IF ~IsStr(kw[n]) \/ IsBlank(kw[n].v)
         THEN ValueError(name \o " must be a non-empty string")
    ELSE IF ~IsValidUri(kw[n].v)
         THEN ValueError(name \o " must be a valid URI: " \o Text(kw[n].v))
    ELSE Ok

\* lines 46-53: at most one of $ref, $dynamicRef, $recursiveRef
CheckRefGroupFirstTwoOnly(kw) ==
    IF Has(kw, "ref") /\ Has(kw, "dynamic_ref")
    THEN ValueError("Only one reference type allowed: $ref, $dynamicRef, or $recursiveRef")
    ELSE Ok

CheckRefGroup(kw) ==
    IF \/ Has(kw, "ref") /\ Has(kw, "dynamic_ref")
       \/ Has(kw, "ref") /\ Has(kw, "recursive_ref")
       \/ Has(kw, "dynamic_ref") /\ Has(kw, "recursive_ref")
    THEN ValueError("Only one reference type allowed: $ref, $dynamicRef, or $recursiveRef")
    ELSE Ok

\* lines 55-75: $ref, $dynamicRef, $recursiveRef
CheckUriReference(kw, n, name) ==
    IF ~Has(kw, n) THEN Ok
    ELSE IF ~IsStr(kw[n]) \/ IsBlank(kw[n].v)
         THEN ValueError(name \o " must be a non-empty string")
    ELSE IF ~IsValidUriReference(kw[n].v)
         THEN ValueError(name \o " must be a valid URI reference: " \o Text(kw[n].v))
    ELSE Ok

\* the group test made on truthiness: a False $recursiveAnchor counts as unset
CheckAnchorGroupTruthy(kw) ==
    IF \/ Has(kw, "anchor") /\ Has(kw, "dynamic_anchor")
       \/ Has(kw, "anchor") /\ Has(kw, "recursive_anchor")
              /\ kw.recursive_anchor # PyBool(FALSE)
       \/ Has(kw, "dynamic_anchor") /\ Has(kw, "recursive_anchor")
              /\ kw.recursive_anchor # PyBool(FALSE)
    THEN ValueError("Only one anchor type allowed: $anchor, $dynamicAnchor, or $recursiveAnchor")
    ELSE Ok

\* lines 77-84: at most one of $anchor, $dynamicAnchor, $recursiveAnchor
CheckAnchorGroup(kw) ==
    IF \/ Has(kw, "anchor") /\ Has(kw, "dynamic_anchor")
       \/ Has(kw, "anchor") /\ Has(kw, "recursive_anchor")
       \/ Has(kw, "dynamic_anchor") /\ Has(kw, "recursive_anchor")
    THEN ValueError("Only one anchor type allowed: $anchor, $dynamicAnchor, or $recursiveAnchor")
    ELSE Ok

\* lines 86-100: $anchor and $dynamicAnchor
CheckAnchor(kw, n, name) ==
    IF ~Has(kw, n) THEN Ok
    ELSE IF ~IsStr(kw[n]) \/ IsBlank(kw[n].v)
         THEN ValueError(name \o " must be a non-empty string")
    ELSE IF ~IsValidAnchor(kw[n].v)
         THEN ValueError(name \o " must be a valid fragment identifier (no '#'): "
                         \o Text(kw[n].v))
    ELSE Ok

\* lines 102-103, 119-123: $recursiveAnchor, readOnly, writeOnly are booleans
CheckBoolValue(kw, n, name) ==
    IF Has(kw, n) /\ ~IsBool(kw[n])
    THEN ValueError(name \o " must be a boolean")
    ELSE Ok

\* lines 105-114: $vocabulary maps URI strings to booleans
CheckVocabulary(kw) ==
    IF ~Has(kw, "vocabulary") THEN Ok
    ELSE IF ~IsDict(kw.vocabulary) THEN ValueError("$vocabulary must be a dictionary")
    ELSE LET es == kw.vocabulary.v
             Entry(i) ==
                 IF ~IsStr(es[i][1]) \/ IsBlank(es[i][1].v)
                 THEN ValueError("$vocabulary keys must be non-empty URI strings")
                 ELSE IF ~IsValidUri(es[i][1].v)
                 THEN ValueError("$vocabulary key must be a valid URI: " \o Text(es[i][1].v))
                 ELSE IF ~IsBool(es[i][2])
                 THEN TypeError("$vocabulary values must be boolean: " \o Text(es[i][1].v))
                 ELSE Ok
         IN  FirstRaise([i \in 1..Len(es) |-> Entry(i)])

\* the test made on presence: readOnly and writeOnly both given, whatever they are
CheckReadWriteBothGiven(kw) ==
    IF Has(kw, "read_only") /\ Has(kw, "write_only")
    THEN ValueError("Schema cannot be both readOnly and writeOnly")
    ELSE Ok

\* lines 116-117: readOnly and writeOnly are not both True
CheckReadWrite(kw) ==
    IF /\ Has(kw, "read_only") /\ kw.read_only = PyBool(TRUE)
       /\ Has(kw, "write_only") /\ kw.write_only = PyBool(TRUE)
    THEN ValueError("Schema cannot be both readOnly and writeOnly")
    ELSE Ok

\* the test made on truthiness: an empty mapping counts as unset
CheckDefsGroupTruthy(kw) ==
    IF /\ Has(kw, "definitions") /\ kw.definitions # PyDict(<<>>)
       /\ Has(kw, "defs") /\ kw.defs # PyDict(<<>>)
    THEN ValueError("Use either 'definitions' (draft-07) or '$defs' (2019-09+), not both")
    ELSE Ok

\* lines 125-128: at most one of definitions, $defs
CheckDefsGroup(kw) ==
    IF Has(kw, "definitions") /\ Has(kw, "defs")
    THEN ValueError("Use either 'definitions' (draft-07) or '$defs' (2019-09+), not both")
    ELSE Ok

\* lines 130-142: definitions and $defs are dicts with non-blank string keys
CheckDefs(kw, n, name) ==
    IF ~Has(kw, n) THEN Ok
    ELSE IF ~IsDict(kw[n]) THEN ValueError(name \o " must be a dictionary")
    ELSE LET es == kw[n].v
             Entry(i) ==
                 IF ~IsStr(es[i][1]) \/ IsBlank(es[i][1].v)
                 THEN ValueError(name \o " keys must be non-empty strings")
                 ELSE Ok
         IN  FirstRaise([i \in 1..Len(es) |-> Entry(i)])

\* lines 34-142: the checks of Schema.__init__, in the order of the source
SchemaRules(kw) ==
    <<
        CheckUri(kw, "id_", "$id"),
        CheckUri(kw, "schema", "$schema"),
        CheckRefGroup(kw),
        CheckUriReference(kw, "ref", "$ref"),
        CheckUriReference(kw, "dynamic_ref", "$dynamicRef"),
        CheckUriReference(kw, "recursive_ref", "$recursiveRef"),
        CheckAnchorGroup(kw),
        CheckAnchor(kw, "anchor", "$anchor"),
        CheckAnchor(kw, "dynamic_anchor", "$dynamicAnchor"),
        CheckBoolValue(kw, "recursive_anchor", "$recursiveAnchor"),
        CheckVocabulary(kw),
        CheckReadWrite(kw),
        CheckBoolValue(kw, "read_only", "readOnly"),
        CheckBoolValue(kw, "write_only", "writeOnly"),
        CheckDefsGroup(kw),
        CheckDefs(kw, "definitions", "definitions"),
        CheckDefs(kw, "defs", "$defs")
    >>

\* lines 34-142: the first check that raises ends Schema.__init__
SchemaChecks(args) == Once({FirstRaise(SchemaRules(kw))
      : kw \in {args}})

\* the keywords of Schema.__init__ (lines 14-32), in the order to_dict reads them
BaseKeywords ==
    <<"id_", "schema", "ref", "dynamic_ref", "recursive_ref", "definitions", "defs",
      "comment", "anchor", "dynamic_anchor", "recursive_anchor", "vocabulary",
      "title", "description", "deprecated", "read_only", "write_only">>

---------------------------------------------------------------------------
(* Checks that ArraySchema.__init__ and ObjectSchema.__init__ word alike *)

\* array_schema.py 92-102, 108-112, 116-120; object_schema.py 122-132:
\* a bound is an int and is not negative
CheckBoundAllowsNegative(kw, n, name) ==
    IF ~Has(kw, n) THEN Ok
    ELSE IF ~IsInt(kw[n]) THEN TypeError(name \o " must be an integer")
    ELSE Ok

CheckBound(kw, n, name) ==
    IF ~Has(kw, n) THEN Ok
    ELSE IF ~IsInt(kw[n]) THEN TypeError(name \o " must be an integer")
    ELSE IF IntVal(kw[n]) < 0 THEN ValueError(name \o " must be non-negative")
    ELSE Ok

\* array_schema.py 104-106, 124-126; object_schema.py 134-136: min <= max.
\* The comparison is reached with two ints only: the bound checks before it raised otherwise.
CheckRangeOffByOne(kw, lo, hi, loName, hiName) ==
    IF /\ Has(kw, lo) /\ Has(kw, hi) /\ IsInt(kw[lo]) /\ IsInt(kw[hi])
       /\ IntVal(kw[lo]) >= IntVal(kw[hi])
    THEN ValueError(loName \o " cannot be greater than " \o hiName)
    ELSE Ok

CheckRange(kw, lo, hi, loName, hiName) ==
    IF /\ Has(kw, lo) /\ Has(kw, hi) /\ IsInt(kw[lo]) /\ IsInt(kw[hi])
       /\ IntVal(kw[lo]) > IntVal(kw[hi])
    THEN ValueError(loName \o " cannot be greater than " \o hiName)
    ELSE Ok

\* isinstance(x, family), family the class named in the check: ArraySchema in
\* array_schema.py, Schema in object_schema.py
IsInstance(x, family) ==
    IF family = "ArraySchema" THEN IsArraySchema(x) ELSE IsSchema(x)

\* "an ArraySchema", "a Schema"
Article(family) == IF family = "ArraySchema" THEN "an " ELSE "a "

\* array_schema.py 136-161 and object_schema.py 165-190:
\* allOf, anyOf, oneOf are non-empty lists of instances of family
CheckCompositionAllowsEmpty(kw, n, name, family) ==
    IF ~Has(kw, n) THEN Ok
    ELSE IF ~IsList(kw[n]) THEN TypeError(name \o " must be a list")
    ELSE IF \E i \in 1..Len(kw[n].v) : ~IsInstance(kw[n].v[i], family)
         THEN TypeError("All " \o name \o " items must be " \o family \o " instances")
    ELSE Ok

CheckComposition(kw, n, name, family) ==
    IF ~Has(kw, n) THEN Ok
    ELSE IF ~IsList(kw[n]) THEN TypeError(name \o " must be a list")
    ELSE IF kw[n].v = <<>> THEN ValueError(name \o " must contain at least one schema")
    ELSE IF \E i \in 1..Len(kw[n].v) : ~IsInstance(kw[n].v[i], family)
         THEN TypeError("All " \o name \o " items must be " \o family \o " instances")
    ELSE Ok

\* array_schema.py 88-90, 163-165, 170-180 and object_schema.py 118-120, 192-194,
\* 199-209: the value of a single-node keyword is an instance of family
CheckMember(kw, n, name, family) ==
    IF Has(kw, n) /\ ~IsInstance(kw[n], family)
    THEN TypeError(name \o " must be " \o Article(family) \o family \o " instance")
    ELSE Ok

\* array_schema.py 167-168 and object_schema.py 196-197: then and else need if
CheckThenElseThenOnly(kw) ==
    IF Has(kw, "then") /\ ~Has(kw, "if_")
    THEN ValueError("'then' and 'else' require 'if' to be specified")
    ELSE Ok

CheckThenElse(kw) ==
    IF (Has(kw, "then") \/ Has(kw, "else_")) /\ ~Has(kw, "if_")
    THEN ValueError("'then' and 'else' require 'if' to be specified")
    ELSE Ok

\* array_schema.py 132-134 and object_schema.py 95-105: a node or a boolean
CheckNodeOrBool(kw, n, name) ==
    IF Has(kw, n) /\ ~(IsSchema(kw[n]) \/ IsBool(kw[n]))
    THEN TypeError(name \o " must be a Schema instance or boolean")
    ELSE Ok

\* a dict with a str key that is not blank, as every per-entry loop asks first
CheckKey(key, name) ==
    IF ~IsStr(key) \/ IsBlank(key.v)
    THEN ValueError(name \o " keys must be non-empty strings")
    ELSE Ok

---------------------------------------------------------------------------
(* ArraySchema.__init__ : src/_archieve/array_schema.py *)

\* lines 69-79: items is a node or a list of nodes
CheckItems(kw) ==
    IF ~Has(kw, "items") THEN Ok
    ELSE IF IsList(kw.items)
         THEN IF \E i \in 1..Len(kw.items.v) : ~IsSchema(kw.items.v[i])
              THEN TypeError("All items in 'items' list must be Schema instances")
              ELSE Ok
    ELSE IF ~IsSchema(kw.items)
         THEN TypeError("items must be a Schema instance or list of Schema instances")
    ELSE Ok

\* lines 81-86: prefixItems is a list of nodes
CheckPrefixItems(kw) ==
    IF ~Has(kw, "prefix_items") THEN Ok
    ELSE IF ~IsList(kw.prefix_items) THEN TypeError("prefixItems must be a list")
    ELSE IF \E i \in 1..Len(kw.prefix_items.v) : ~IsSchema(kw.prefix_items.v[i])
         THEN TypeError("All items in prefixItems must be Schema instances")
    ELSE Ok

\* lines 108-122: minContains / maxContains are bounds and need contains
CheckContainsBoundNoDependency(kw, n, name) ==
    CheckBound(kw, n, name)

CheckContainsBound(kw, n, name) ==
    IF CheckBound(kw, n, name).exc # "ok" THEN CheckBound(kw, n, name)
    ELSE IF Has(kw, n) /\ ~Has(kw, "contains")
         THEN ValueError(name \o " requires contains to be specified")
    ELSE Ok

\* lines 128-130: uniqueItems is a boolean
CheckUniqueItems(kw) ==
    IF Has(kw, "unique_items") /\ ~IsBool(kw.unique_items)
    THEN TypeError("uniqueItems must be a boolean")
    ELSE Ok

\* lines 69-180: the checks of ArraySchema.__init__ after super().__init__
ArrayRules(kw) ==
    <<
        CheckItems(kw),
        CheckPrefixItems(kw),
        CheckMember(kw, "contains", "contains", "Schema"),
        CheckBound(kw, "min_items", "minItems"),
        CheckBound(kw, "max_items", "maxItems"),
        CheckRange(kw, "min_items", "max_items", "minItems", "maxItems"),
        CheckContainsBound(kw, "min_contains", "minContains"),
        CheckContainsBound(kw, "max_contains", "maxContains"),
        CheckRange(kw, "min_contains", "max_contains", "minContains", "maxContains"),
        CheckUniqueItems(kw),
        CheckNodeOrBool(kw, "unevaluated_items", "unevaluatedItems"),
        CheckComposition(kw, "all_of", "allOf", "ArraySchema"),
        CheckComposition(kw, "any_of", "anyOf", "ArraySchema"),
        CheckComposition(kw, "one_of", "oneOf", "ArraySchema"),
        CheckMember(kw, "not_", "not", "ArraySchema"),
        CheckThenElse(kw),
        CheckMember(kw, "if_", "if", "ArraySchema"),
        CheckMember(kw, "then", "then", "ArraySchema"),
        CheckMember(kw, "else_", "else", "ArraySchema")
    >>

\* lines 69-180: the first check that raises ends ArraySchema.__init__
ArrayChecks(args) == Once({FirstRaise(ArrayRules(kw))
      : kw \in {args}})

\* the keywords ArraySchema adds (lines 27-43), in the order to_dict reads them
ArrayKeywords ==
    <<"items", "prefix_items", "contains", "min_items", "max_items",
      "min_contains", "max_contains", "unique_items", "unevaluated_items",
      "all_of", "any_of", "one_of", "not_", "if_", "then", "else_">>

---------------------------------------------------------------------------
(* ObjectSchema.__init__ : src/_archieve/object_schema.py *)

\* re.compile(key) raises re.error: a "(" that is never closed ("(unclosed") or a
\* ")" that closes nothing does; the tokens "a", " " and balanced parentheses do not
Count(s, n, tok) == Cardinality({i \in 1..n : s[i] = tok})

\* open groups after the first n tokens of s
Depth(s, n) == Count(s, n, "(") - Count(s, n, ")")

\* the ")" of s that close no group, and the "(" that no ")" closes
Unopened(s) == {n \in 1..Len(s) : s[n] = ")" /\ Depth(s, n) < 0}
Unclosed(s) == {n \in 1..Len(s) : s[n] = "(" /\ \A m \in n..Len(s) : Depth(s, m) >= Depth(s, n)}

\* the characters of a pattern token: "[a-z]" is a character class, every other
\* token one character
RECURSIVE Offset(_, _)
\* the number of characters in the first n tokens of s
Offset(s, n) == IF n = 0 THEN 0 ELSE Offset(s, n - 1) + (IF s[n] = "[a-z]" THEN 5 ELSE 1)

\* the "+" with nothing before it to repeat: at the start of the pattern or of
\* a group, or after "^" or "$"
Unrepeatable(s) ==
    {n \in 1..Len(s) : s[n] = "+" /\ (n = 1 \/ s[n - 1] \in {"(", "^", "$"})}

\* the "+" after a repeat that is already possessive ("a++")
Overrepeated(s) ==
    {n \in 3..Len(s) : s[n] = "+" /\ s[n - 1] = "+" /\ s[n - 2] = "+"}

\* where the parser stops before the end of the pattern
Stops(s) == Unopened(s) \cup Unrepeatable(s) \cup Overrepeated(s)

\* re.compile(pattern), for patterns of letters, character classes, groups,
\* "+", "^" and "$"
ReCompileRaises(s) == Stops(s) # {} \/ Unclosed(s) # {}

\* str(e) of the re.error: what stops the parser first, or else the last "("
\* left open, at its character offset
ReError(s) ==
    IF Stops(s) # {}
    THEN LET first == CHOOSE n \in Stops(s) : \A m \in Stops(s) : n <= m
         IN  (IF first \in Unopened(s) THEN "unbalanced parenthesis"
              ELSE IF first \in Unrepeatable(s) THEN "nothing to repeat"
              ELSE "multiple repeat")
             \o " at position " \o ToString(Offset(s, first - 1))
    ELSE "missing ), unterminated subpattern at position "
         \o ToString(Offset(s, (CHOOSE n \in Unclosed(s) : \A m \in Unclosed(s) : n >= m) - 1))

\* lines 71-78: properties maps non-blank str keys to nodes
CheckProperties(kw) ==
    IF ~Has(kw, "properties") THEN Ok
    ELSE IF ~IsDict(kw.properties) THEN TypeError("properties must be a dictionary")
    ELSE LET es == kw.properties.v
             Entry(i) ==
                 IF CheckKey(es[i][1], "properties").exc # "ok"
                 THEN CheckKey(es[i][1], "properties")
                 ELSE IF ~IsSchema(es[i][2])
                 THEN TypeError("properties values must be Schema instances")
                 ELSE Ok
         IN  FirstRaise([i \in 1..Len(es) |-> Entry(i)])

\* the value of an entry looked at before its key
CheckPatternPropertiesValueFirst(kw) ==
    IF ~Has(kw, "pattern_properties") THEN Ok
    ELSE IF ~IsDict(kw.pattern_properties)
         THEN TypeError("patternProperties must be a dictionary")
    ELSE LET es == kw.pattern_properties.v
             Entry(i) ==
                 IF ~IsSchema(es[i][2])
                 THEN TypeError("patternProperties values must be Schema instances")
                 ELSE IF CheckKey(es[i][1], "patternProperties").exc # "ok"
                 THEN CheckKey(es[i][1], "patternProperties")
                 ELSE IF ReCompileRaises(es[i][1].v)
                 THEN ValueError("patternProperties key must be a valid regular expression: "
                                 \o ReError(es[i][1].v))
                 ELSE Ok
         IN  FirstRaise([i \in 1..Len(es) |-> Entry(i)])

\* lines 80-93: patternProperties maps regular expressions to nodes
CheckPatternProperties(kw) ==
    IF ~Has(kw, "pattern_properties") THEN Ok
    ELSE IF ~IsDict(kw.pattern_properties)
         THEN TypeError("patternProperties must be a dictionary")
    ELSE LET es == kw.pattern_properties.v
             Entry(i) ==
                 IF CheckKey(es[i][1], "patternProperties").exc # "ok"
                 THEN CheckKey(es[i][1], "patternProperties")
                 ELSE IF ReCompileRaises(es[i][1].v)
                 THEN ValueError("patternProperties key must be a valid regular expression: "
                                 \o ReError(es[i][1].v))
                 ELSE IF ~IsSchema(es[i][2])
                 THEN TypeError("patternProperties values must be Schema instances")
                 ELSE Ok
         IN  FirstRaise([i \in 1..Len(es) |-> Entry(i)])

\* the names of a list are non-blank strs (lines 112-116, 150-154)
CheckNames(names, msg) ==
    IF \E i \in 1..Len(names) : ~IsStr(names[i]) \/ IsBlank(names[i].v)
    THEN ValueError(msg)
    ELSE Ok

\* lines 107-116: required is a non-empty list of non-blank strs
CheckRequired(kw) ==
    IF ~Has(kw, "required") THEN Ok
    ELSE IF ~IsList(kw.required) THEN TypeError("required must be a list")
    ELSE IF kw.required.v = <<>>
         THEN ValueError("required must contain at least one property name")
    ELSE CheckNames(kw.required.v, "required property names must be non-empty strings")

\* lines 138-154: dependentRequired maps non-blank keys to non-empty lists of names
CheckDependentRequired(kw) ==
    IF ~Has(kw, "dependent_required") THEN Ok
    ELSE IF ~IsDict(kw.dependent_required)
         THEN TypeError("dependentRequired must be a dictionary")
    ELSE LET es == kw.dependent_required.v
             Entry(i) ==
                 IF CheckKey(es[i][1], "dependentRequired").exc # "ok"
                 THEN CheckKey(es[i][1], "dependentRequired")
                 ELSE IF ~IsList(es[i][2])
                 THEN TypeError("dependentRequired values must be lists")
                 ELSE IF es[i][2].v = <<>>
                 THEN ValueError("dependentRequired lists must contain at least one property name")
                 ELSE CheckNames(es[i][2].v,
                          "dependentRequired property names must be non-empty strings")
         IN  FirstRaise([i \in 1..Len(es) |-> Entry(i)])

\* lines 156-163: dependentSchemas maps non-blank keys to nodes
CheckDependentSchemas(kw) ==
    IF ~Has(kw, "dependent_schemas") THEN Ok
    ELSE IF ~IsDict(kw.dependent_schemas)
         THEN TypeError("dependentSchemas must be a dictionary")
    ELSE LET es == kw.dependent_schemas.v
             Entry(i) ==
                 IF CheckKey(es[i][1], "dependentSchemas").exc # "ok"
                 THEN CheckKey(es[i][1], "dependentSchemas")
                 ELSE IF ~IsSchema(es[i][2])
                 THEN TypeError("dependentSchemas values must be Schema instances")
                 ELSE Ok
         IN  FirstRaise([i \in 1..Len(es) |-> Entry(i)])

\* the membership test made of the first name only
CheckRequiredInPropertiesFirstOnly(kw) ==
    IF Has(kw, "required") /\ Has(kw, "properties")
       /\ IsList(kw.required) /\ IsDict(kw.properties)
       /\ kw.required.v # <<>> /\ IsStr(kw.required.v[1])
       /\ \A j \in 1..Len(kw.properties.v) : kw.properties.v[j][1] # kw.required.v[1]
    THEN ValueError("required property '" \o Text(kw.required.v[1].v)
                    \o "' is not defined in properties")
    ELSE Ok

\* lines 211-216: every required name is a key of properties.
\* Reached with a list of strs and a dict only: the checks before it raised otherwise.
CheckRequiredInProperties(kw) ==
    IF Has(kw, "required") /\ Has(kw, "properties")
       /\ IsList(kw.required) /\ IsDict(kw.properties)
    THEN LET req == kw.required.v
             Entry(i) ==
                 IF IsStr(req[i])
                    /\ \A j \in 1..Len(kw.properties.v) : kw.properties.v[j][1] # req[i]
                 THEN ValueError("required property '" \o Text(req[i].v)
                                 \o "' is not defined in properties")
                 ELSE Ok
         IN  FirstRaise([i \in 1..Len(req) |-> Entry(i)])
    ELSE Ok

\* lines 71-216: the checks of ObjectSchema.__init__ after super().__init__
\* the kinds of if, then and else looked at before the rule that then and
\* else need if
ObjectRulesKindsFirst(kw) ==
    <<
        CheckProperties(kw),
        CheckPatternProperties(kw),
        CheckNodeOrBool(kw, "additional_properties", "additionalProperties"),
        CheckNodeOrBool(kw, "unevaluated_properties", "unevaluatedProperties"),
        CheckRequired(kw),
        CheckMember(kw, "property_names", "propertyNames", "Schema"),
        CheckBound(kw, "min_properties", "minProperties"),
        CheckBound(kw, "max_properties", "maxProperties"),
        CheckRange(kw, "min_properties", "max_properties", "minProperties", "maxProperties"),
        CheckDependentRequired(kw),
        CheckDependentSchemas(kw),
        CheckComposition(kw, "all_of", "allOf", "Schema"),
        CheckComposition(kw, "any_of", "anyOf", "Schema"),
        CheckComposition(kw, "one_of", "oneOf", "Schema"),
        CheckMember(kw, "not_", "not", "Schema"),
        CheckMember(kw, "if_", "if", "Schema"),
        CheckMember(kw, "then", "then", "Schema"),
        CheckMember(kw, "else_", "else", "Schema"),
        CheckThenElse(kw),
        CheckRequiredInProperties(kw)
    >>

ObjectRules(kw) ==
    <<
        CheckProperties(kw),
        CheckPatternProperties(kw),
        CheckNodeOrBool(kw, "additional_properties", "additionalProperties"),
        CheckNodeOrBool(kw, "unevaluated_properties", "unevaluatedProperties"),
        CheckRequired(kw),
        CheckMember(kw, "property_names", "propertyNames", "Schema"),
        CheckBound(kw, "min_properties", "minProperties"),
        CheckBound(kw, "max_properties", "maxProperties"),
        CheckRange(kw, "min_properties", "max_properties", "minProperties", "maxProperties"),
        CheckDependentRequired(kw),
        CheckDependentSchemas(kw),
        CheckComposition(kw, "all_of", "allOf", "Schema"),
        CheckComposition(kw, "any_of", "anyOf", "Schema"),
        CheckComposition(kw, "one_of", "oneOf", "Schema"),
        CheckMember(kw, "not_", "not", "Schema"),
        CheckThenElse(kw),
        CheckMember(kw, "if_", "if", "Schema"),
        CheckMember(kw, "then", "then", "Schema"),
        CheckMember(kw, "else_", "else", "Schema"),
        CheckRequiredInProperties(kw)
    >>

\* lines 71-216: the first check that raises ends ObjectSchema.__init__
ObjectChecks(args) == Once({FirstRaise(ObjectRules(kw))
      : kw \in {args}})

\* the keywords ObjectSchema adds (lines 28-45), in the order to_dict reads them
ObjectKeywords ==
    <<"properties", "pattern_properties", "additional_properties",
      "unevaluated_properties", "required", "property_names", "min_properties",
      "max_properties", "dependent_required", "dependent_schemas",
      "all_of", "any_of", "one_of", "not_", "if_", "then", "else_">>

---------------------------------------------------------------------------
(* Construction: type.__call__ runs __init__ on a new object and returns the  *)
(* object only if __init__ returned                                           *)

\* the keyword arguments among ks
Restrict(kw, ks) == [n \in DOMAIN kw \cap ks |-> kw[n]]

Range(s) == {s[i] : i \in 1..Len(s)}

\* f extended by g
Merge(f, g) == [n \in DOMAIN f \cup DOMAIN g |-> IF n \in DOMAIN g THEN g[n] ELSE f[n]]

Keywords(cls) ==
    IF cls = "ArraySchema" THEN BaseKeywords \o ArrayKeywords
    ELSE IF cls = "ObjectSchema" THEN BaseKeywords \o ObjectKeywords
    ELSE BaseKeywords

\* schema.py 34-160: the checks, then the assignments self._x = x.
\* attrs is what the object holds when __init__ ends: nothing after a raise.
SchemaInit(kw) ==
    Once({
        IF r.exc # "ok" THEN [res |-> r, attrs |-> "none", f |-> <<>>]
        ELSE [res |-> Ok, attrs |-> "base", f |-> Restrict(kw, Range(BaseKeywords))]
      : r \in {SchemaChecks(kw)}})

\* array_schema.py 49-197: super().__init__, the array checks, the assignments.
\* A raise in the array checks leaves an object holding the base attributes only.
ArraySchemaInitNoArrayChecks(kw) ==
    Once({
        IF b.res.exc # "ok" THEN b
        ELSE [res |-> Ok, attrs |-> "all",
              f |-> Merge(b.f, Restrict(kw, Range(ArrayKeywords)))]
      : b \in {SchemaInit(Restrict(kw, Range(BaseKeywords)))}})

ArraySchemaInit(kw) ==
    Once({
        IF b.res.exc # "ok" THEN b
        ELSE Once({
            IF r.exc # "ok" THEN [res |-> r, attrs |-> "base", f |-> b.f]
            ELSE [res |-> Ok, attrs |-> "all",
                  f |-> Merge(b.f, Restrict(kw, Range(ArrayKeywords)))]
          : r \in {ArrayChecks(kw)}})
      : b \in {SchemaInit(Restrict(kw, Range(BaseKeywords)))}})

\* object_schema.py 51-234
ObjectSchemaInit(kw) ==
    Once({
        IF b.res.exc # "ok" THEN b
        ELSE Once({
            IF r.exc # "ok" THEN [res |-> r, attrs |-> "base", f |-> b.f]
            ELSE [res |-> Ok, attrs |-> "all",
                  f |-> Merge(b.f, Restrict(kw, Range(ObjectKeywords)))]
          : r \in {ObjectChecks(kw)}})
      : b \in {SchemaInit(Restrict(kw, Range(BaseKeywords)))}})

\* cls(**kw): the outcome of __init__ and the attributes it left on the object
InitOf(cls, kw) ==
    IF cls = "ArraySchema" THEN ArraySchemaInit(kw)
    ELSE IF cls = "ObjectSchema" THEN ObjectSchemaInit(kw)
    ELSE SchemaInit(kw)

\* the keyword arguments that are list or dict objects, in the order of Keywords
ContainerKeywords(cls, kw) ==
    SelectSeq(Keywords(cls), LAMBDA n : n \in DOMAIN kw /\ kw[n].k \in {"list", "dict"})

IndexOf(s, x) == CHOOSE i \in 1..Len(s) : s[i] = x

\* the keyword arguments as the callee receives them: a list or dict argument is a
\* reference to the caller's object, which goes to store at index base + 1, ...
ByReference(cls, kw, base) ==
    LET cs == ContainerKeywords(cls, kw)
    IN  [n \in DOMAIN kw |->
            IF kw[n].k = "list" THEN ListRef(base + IndexOf(cs, n))
            ELSE IF kw[n].k = "dict" THEN DictRef(base + IndexOf(cs, n))
            ELSE kw[n]]

Containers(cls, kw) ==
    LET cs == ContainerKeywords(cls, kw)
    IN  [i \in 1..Len(cs) |-> kw[cs[i]].v]

---------------------------------------------------------------------------
(* to_dict *)

\* the key to_dict writes for each attribute (schema.py 189-228,
\* array_schema.py 204-241, object_schema.py 241-286)
\* the keyword's Python name used as the key
CanonicalRaw(n) == n

Canonical(n) ==
    CASE n = "id_" -> "$id"
      [] n = "schema" -> "$schema"
      [] n = "ref" -> "$ref"
      [] n = "dynamic_ref" -> "$dynamicRef"
      [] n = "recursive_ref" -> "$recursiveRef"
      [] n = "defs" -> "$defs"
      [] n = "comment" -> "$comment"
      [] n = "anchor" -> "$anchor"
      [] n = "dynamic_anchor" -> "$dynamicAnchor"
      [] n = "recursive_anchor" -> "$recursiveAnchor"
      [] n = "vocabulary" -> "$vocabulary"
      [] n = "read_only" -> "readOnly"
      [] n = "write_only" -> "writeOnly"
      [] n = "prefix_items" -> "prefixItems"
      [] n = "min_items" -> "minItems"
      [] n = "max_items" -> "maxItems"
      [] n = "min_contains" -> "minContains"
      [] n = "max_contains" -> "maxContains"
      [] n = "unique_items" -> "uniqueItems"
      [] n = "unevaluated_items" -> "unevaluatedItems"
      [] n = "all_of" -> "allOf"
      [] n = "any_of" -> "anyOf"
      [] n = "one_of" -> "oneOf"
      [] n = "not_" -> "not"
      [] n = "if_" -> "if"
      [] n = "else_" -> "else"
      [] n = "pattern_properties" -> "patternProperties"
      [] n = "additional_properties" -> "additionalProperties"
      [] n = "unevaluated_properties" -> "unevaluatedProperties"
      [] n = "property_names" -> "propertyNames"
      [] n = "min_properties" -> "minProperties"
      [] n = "max_properties" -> "maxProperties"
      [] n = "dependent_required" -> "dependentRequired"
      [] n = "dependent_schemas" -> "dependentSchemas"
      [] OTHER -> n

\* depth of nested to_dict calls at which the interpreter raises RecursionError
RecursionLimit == 4

\* a call that raised instead of returning a value
Raised(e) == [k |-> "raise", v |-> e]
IsRaised(x) == x.k = "raise"

\* a comprehension that yields the elements last to first
ListOfReversed(items) ==
    Once({
        LET bad == {i \in 1..Len(xs) : IsRaised(xs[i])}
        IN  IF bad = {} THEN PyList([i \in 1..Len(xs) |-> xs[Len(xs) + 1 - i]])
            ELSE xs[CHOOSE i \in bad : \A j \in bad : i <= j]
      : xs \in {items}})

\* a list display or comprehension over items: the first element that raises ends it
ListOf(items) ==
    Once({
        LET bad == {i \in 1..Len(xs) : IsRaised(xs[i])}
        IN  IF bad = {} THEN PyList(xs)
            ELSE xs[CHOOSE i \in bad : \A j \in bad : i <= j]
      : xs \in {items}})

\* a dict comprehension or a sequence of result[key] = value statements
DictOf(entries) ==
    Once({
        LET bad == {i \in 1..Len(es) : IsRaised(es[i][2])}
        IN  IF bad = {} THEN PyDict(es)
            ELSE es[CHOOSE i \in bad : \A j \in bad : i <= j][2]
      : es \in {entries}})

\* attributes to_dict writes as they are: the value, or the very list or dict held
\* (seen here with the contents it has at the time of the call)
AsIs(x, st) ==
    IF x.k = "listref" THEN PyList(st[x.v])
    ELSE IF x.k = "dictref" THEN PyDict(st[x.v])
    ELSE x

ListValued   == {"prefix_items", "all_of", "any_of", "one_of"}
NodeValued   == {"contains", "not_", "if_", "then", "else_", "property_names"}
NodeOrBool   == {"unevaluated_items", "additional_properties", "unevaluated_properties"}
DictValued   == {"properties", "pattern_properties", "dependent_schemas"}
DefsValued   == {"definitions", "defs"}

\* one type name written for both subclasses
TypeNameAlwaysObject(cls) == "object"

\* result["type"]: array_schema.py 202, object_schema.py 239
TypeName(cls) == IF cls = "ArraySchema" THEN "array" ELSE "object"

RECURSIVE ToDict(_, _, _)
\* x.to_dict() at nesting depth d, with the lists and dicts as they are in st.
\* schema.py 186-230, array_schema.py 199-243, object_schema.py 236-288.
ToDict(node, st, d) ==
    Once({
    IF ~IsSchema(x) THEN Raised("AttributeError")
    ELSE IF d > RecursionLimit THEN Raised("RecursionError")
    ELSE
    LET f == x.v.f
        Child(c) == ToDict(c, st, d + 1)
        Each(n) == LET es == Content(f[n], st)
                   IN  ListOf([i \in 1..Len(es) |-> Child(es[i])])
        Emit(n) ==
            IF n \in DefsValued
            THEN LET es == Content(f[n], st)
                 IN  DictOf([i \in 1..Len(es) |->
                        <<es[i][1], IF IsSchema(es[i][2]) THEN Child(es[i][2])
                                    ELSE es[i][2]>>])
            ELSE IF n \in DictValued
            THEN LET es == Content(f[n], st)
                 IN  DictOf([i \in 1..Len(es) |-> <<es[i][1], Child(es[i][2])>>])
            ELSE IF n \in ListValued THEN Each(n)
            ELSE IF n = "items"
            THEN (IF IsList(f[n]) THEN Each(n) ELSE Child(f[n]))
            ELSE IF n \in NodeValued THEN Child(f[n])
            ELSE IF n \in NodeOrBool
            THEN (IF IsBool(f[n]) THEN f[n] ELSE Child(f[n]))
            ELSE AsIs(f[n], st)
        Part(ks) == LET set == SelectSeq(ks, LAMBDA n : Has(f, n))
                    IN  [i \in 1..Len(set) |-> <<PyStr(<<Canonical(set[i])>>), Emit(set[i])>>]
        base == Part(BaseKeywords)
    IN  IF x.v.cls = "ArraySchema"
        THEN DictOf(base \o <<<<PyStr(<<"type">>), PyStr(<<TypeName(x.v.cls)>>)>>>>
                         \o Part(ArrayKeywords))
        ELSE IF x.v.cls = "ObjectSchema"
        THEN DictOf(base \o <<<<PyStr(<<"type">>), PyStr(<<TypeName(x.v.cls)>>)>>>>
                         \o Part(ObjectKeywords))
        ELSE DictOf(base)
      : x \in {node}})

\* the keys of a mapping
Keys(d) == {d.v[i][1] : i \in 1..Len(d.v)}

\* d[key], for a key of d
Lookup(d, key) == d.v[CHOOSE i \in 1..Len(d.v) : d.v[i][1] = key][2]

---------------------------------------------------------------------------
(* The operations open to a caller *)

Classes == {"Schema", "ArraySchema", "ObjectSchema"}

NoCall == [cls |-> "", kw |-> <<>>, exc |-> "none", msg |-> "", attrs |-> "none"]
\* out: the node the caller last serialised, the mapping it got, how many
\* times in a row it has called to_dict on that node, and in prev the node and
\* the mapping of the to_dict call directly before; the caller keeps the
\* mappings until it does anything other than calling to_dict
NoOut  == [node |-> 0, d |-> PyDict(<<>>), calls |-> 0,
           prev |-> [node |-> 0, d |-> PyDict(<<>>)]]

Init ==
    /\ held = <<>>
    /\ store = <<>>
    /\ last = NoCall
    /\ out = NoOut

\* n = cls(**kw): the caller obtains the node only if __init__ returned
Construct(cls, kw) ==
    \E i \in {InitOf(cls, kw)} :
        /\ last' = [cls |-> cls, kw |-> kw, exc |-> i.res.exc, msg |-> i.res.msg,
                    attrs |-> i.attrs]
        /\ IF i.res.exc = "ok"
           THEN /\ held' = Append(held, Node(cls, ByReference(cls, i.f, Len(store))))
                /\ store' = store \o Containers(cls, i.f)
           ELSE UNCHANGED <<held, store>>
        /\ out' = NoOut

\* a to_dict that walks its keywords in no fixed order, as a loop over a set
\* of names does: the keys come first to last or last to first
ToDictCallAnyOrder(i) ==
    /\ i \in 1..Len(held)
    /\ out.node = i => out.calls < MaxCalls
    /\ \E m \in {ToDict(held[i], store, 1)} :
       \E b \in BOOLEAN :
           out' = [node |-> i,
                   d |-> IF b /\ m.k = "dict"
                         THEN PyDict([e \in 1..Len(m.v) |-> m.v[Len(m.v) + 1 - e]])
                         ELSE m,
                   calls |-> IF out.node = i THEN out.calls + 1 ELSE 1,
                   prev |-> [node |-> out.node, d |-> out.d]]
    /\ UNCHANGED <<held, store, last>>

\* d = held[i].to_dict(): the method assigns to no attribute and changes no
\* list or dict it reads
ToDictCall(i) ==
    /\ i \in 1..Len(held)
    /\ out.node = i => out.calls < MaxCalls
    /\ out' = [node |-> i, d |-> ToDict(held[i], store, 1),
               calls |-> IF out.node = i THEN out.calls + 1 ELSE 1,
               prev |-> [node |-> out.node, d |-> out.d]]
    /\ UNCHANGED <<held, store, last>>

\* the lists and dicts node x holds by reference under the keywords ks
RefsOf(x, ks) == {x.v.f[n] : n \in {m \in DOMAIN x.v.f \cap ks : x.v.f[m].k \in {"listref", "dictref"}}}

\* the attributes to_dict hands out as they are and that can hold a list or a
\* dict (schema.py 209-210, 217-224, object_schema.py 259-260, 267-268): the
\* result holds the node's own object.  comment, title, description and
\* deprecated have no check, so they hold whatever object the caller passed
HandedOut == {"vocabulary", "required", "dependent_required",
              "comment", "title", "description", "deprecated"}

RECURSIVE HandedOutBy(_, _, _)
\* the caller's lists and dicts reached, by identity, through the mapping
\* x.to_dict() returns at nesting depth d.  r is the object the caller passed and
\* own tells whether the result holds r itself: it does for the attributes x
\* hands out as they are; for definitions and $defs the result holds a new dict
\* whose raw values are the values of r (schema.py 199-208), so the lists and
\* dicts inside r are reached and r is not.  The nodes x writes with their own
\* to_dict (schema.py 197-206, array_schema.py 204-241, object_schema.py 241-286)
\* add what they hand out
HandedOutBy(x, st, d) ==
    IF ~IsSchema(x) \/ d > RecursionLimit THEN {}
    ELSE LET f == x.v.f
             Under(n) ==
                 IF n \in ListValued \/ (n = "items" /\ IsList(f[n]))
                 THEN LET es == Content(f[n], st)
                      IN  {es[i] : i \in {j \in 1..Len(es) : IsSchema(es[j])}}
                 ELSE IF n \in DictValued \cup DefsValued
                 THEN LET es == Content(f[n], st)
                      IN  {es[i][2] : i \in {j \in 1..Len(es) : IsSchema(es[j][2])}}
                 ELSE IF n \in NodeValued \cup NodeOrBool \cup {"items"}
                 THEN {f[n]}
                 ELSE {}
         IN  {[r |-> r, own |-> TRUE] : r \in RefsOf(x, HandedOut)}
             \cup {[r |-> r, own |-> FALSE] : r \in RefsOf(x, DefsValued)}
             \cup UNION {HandedOutBy(c, st, d + 1) : c \in UNION {Under(n) : n \in DOMAIN f}}

\* what a caller appends to a list, and the entry a caller adds to a dict
Pushed == PyStr(<<"zip">>)
PushedEntry == <<PyStr(<<"zip">>), PyBool(TRUE)>>

RECURSIVE Changed(_, _)
\* what a list or dict x can be after one call of y.pop() / y.popitem() or
\* y.append(Pushed) / y[key] = value, where y is x itself, when the caller has
\* x (own), or a list or dict found inside x: Python holds a container inside a
\* container by identity, so whoever reaches x reaches them all
Changed(x, own) ==
    IF x.k \notin {"list", "dict"} THEN {}
    ELSE LET es     == x.v
             At(i)  == IF x.k = "dict" THEN es[i][2] ELSE es[i]
             Put(i, y) == [es EXCEPT ![i] = IF x.k = "dict" THEN <<es[i][1], y>> ELSE y]
             fresh  == \A j \in 1..Len(es) : x.k = "dict" => es[j][1] # PushedEntry[1]
         IN  {[k |-> x.k, v |-> SubSeq(es, 1, Len(es) - 1)] :
                  e \in IF own /\ es # <<>> THEN {1} ELSE {}}
             \cup {[k |-> x.k, v |-> Append(es, IF x.k = "dict" THEN PushedEntry ELSE Pushed)] :
                      e \in IF own /\ Len(es) < MaxLen /\ fresh THEN {1} ELSE {}}
             \cup UNION {{[k |-> x.k, v |-> Put(i, y)] : y \in Changed(At(i), TRUE)} :
                             i \in 1..Len(es)}

\* one such call on the caller's list or dict r, or inside it
Change(r, own) ==
    \E y \in Changed(AsIs(r, store), own) : store' = [store EXCEPT ![r.v] = y.v]

\* the caller changes a list or dict it passed to the constructor of held[i]
MutateArgument(i) ==
    /\ i \in 1..Len(held)
    /\ \E r \in RefsOf(held[i], Range(Keywords(held[i].v.cls))) : Change(r, TRUE)
    /\ out' = NoOut
    /\ UNCHANGED <<held, last>>

\* l = [...]; a = cls(k=l); l.append(a): the caller appends the node it has just
\* built to the list it built it from
AppendSelf ==
    /\ last.exc = "ok"
    /\ held # <<>>
    /\ \E a \in {held[Len(held)]} : \E n \in DOMAIN a.v.f :
           /\ a.v.f[n].k = "listref"
           /\ store[a.v.f[n].v] = last.kw[n].v
           /\ Len(store[a.v.f[n].v]) < MaxLen
           /\ store' = [store EXCEPT ![a.v.f[n].v] = Append(@, a)]
    /\ out' = NoOut
    /\ UNCHANGED <<held, last>>

\* the caller changes a list or dict found in the mapping the last to_dict returned
MutateResult ==
    /\ out.node \in 1..Len(held)
    /\ out.d.k = "dict"
    /\ \E t \in HandedOutBy(held[out.node], store, 1) : Change(t.r, t.own)
    /\ out' = NoOut
    /\ UNCHANGED <<held, last>>

\* del n, d: the caller lets go of what it holds
Discard ==
    /\ last # NoCall
    /\ held' = <<>>
    /\ store' = <<>>
    /\ last' = NoCall
    /\ out' = NoOut

---------------------------------------------------------------------------
(* Field : src/src/specflow/field.py *)

\* the object a builder class returns for the keyword arguments f
Builder(c, f) == [k |-> "builder", v |-> [cls |-> c, f |-> f]]

FieldStringParams  == {"const", "min_length", "max_length", "pattern", "enum"}
FieldArrayParams   == {"min_items", "max_items", "min_contains", "max_contains",
                       "items", "prefix_items"}
FieldIntegerParams == {"minimum", "maximum", "exclusive_minimum", "exclusive_maximum", "mult"}
FieldCommon        == {"title", "description", "nullable"}

\* any([a[n] for n in names]): a keyword left out is None
AnyOf(a, names) == \E n \in names : Has(a, n) /\ a[n] \notin Falsy

\* the keyword arguments of Number(...): lines 498-509 and 567-578, with
\* excluvie_maximum=excluvie_maximum or exclusive_maximum
NumberArgs(a) ==
    LET names == FieldCommon \cup {"default", "minimum", "maximum", "exclusive_minimum",
                                   "mult", "constraints"}
        own   == IF Has(a, "excluvie_maximum") /\ a.excluvie_maximum \notin Falsy
                 THEN [excluvie_maximum |-> a.excluvie_maximum]
                 ELSE IF Has(a, "exclusive_maximum")
                 THEN [excluvie_maximum |-> a.exclusive_maximum]
                 ELSE <<>>
    IN  Merge(Restrict(a, names), own)

StringArgs(a)  == Restrict(a, FieldCommon \cup FieldStringParams \cup {"default", "constraints"})
IntegerArgs(a) == Restrict(a, FieldCommon \cup FieldIntegerParams \cup {"default", "constraints"})
\* the keyword arguments of Boolean(...) at lines 502-509 and 602-610, and of
\* String(...) at lines 612-627
PlainArgs(a)   == Restrict(a, FieldCommon \cup {"default", "constraints"})
ArrayArgs(a)   == Restrict(a, FieldCommon \cup FieldArrayParams)

\* lines 433-628: Field(**args), nullable=False when left out
Field(args) ==
    Once({
        IF Has(a, "type_") /\ a.type_ = PyStr(<<"string">>) THEN Builder("String", StringArgs(a))
        ELSE IF Has(a, "type_") /\ a.type_ = PyStr(<<"integer">>)
        THEN Builder("Integer", IntegerArgs(a))
        ELSE IF Has(a, "type_") /\ a.type_ = PyStr(<<"number">>)
        THEN Builder("Number", NumberArgs(a))
        ELSE IF Has(a, "type_") /\ a.type_ = PyStr(<<"boolean">>)
        THEN Builder("Boolean", PlainArgs(a))
        ELSE IF Has(a, "type_") /\ a.type_ = PyStr(<<"array">>)
        THEN Builder("Array", ArrayArgs(a))
        ELSE IF AnyOf(a, FieldStringParams) THEN Builder("String", StringArgs(a))
        ELSE IF AnyOf(a, FieldArrayParams) THEN Builder("Array", ArrayArgs(a))
        \* lines 555-569: a default or a numeric parameter that is a float
        ELSE IF \E n \in FieldIntegerParams \cup {"default", "excluvie_maximum"} :
                    Has(a, n) /\ a[n].k = "float"
        THEN Builder("Number", NumberArgs(a))
        \* isinstance(default, int) holds for a bool too
        ELSE IF AnyOf(a, FieldIntegerParams)
                \/ (Has(a, "default") /\ a.default.k \in {"int", "bool"})
        THEN Builder("Integer", IntegerArgs(a))
        ELSE IF Has(a, "default") /\ a.default.k = "bool"
        THEN Builder("Boolean", PlainArgs(a))
        ELSE IF Has(a, "default") /\ a.default.k = "str"
        THEN Builder("String", PlainArgs(a))
        ELSE Builder("String", PlainArgs(a))
      : a \in {Merge([nullable |-> PyBool(FALSE)], args)}})

\* b = Field(**a)
FieldCall(a) ==
    /\ last' = [cls |-> "Field", kw |-> a, exc |-> "ok", msg |-> "", attrs |-> "all"]
    /\ held' = <<Field(a)>>
    /\ UNCHANGED <<store, out>>

---------------------------------------------------------------------------
(* Spec: a caller that builds nodes out of the nodes it holds, serialises    *)
(* them, and goes on using the lists and dicts it passed or got back         *)

OneKey(key, value) == PyDict(<<<<PyStr(<<key>>), value>>>>)

\* the keyword arguments drawn: none, a vocabulary, a list inside a dict of
\* definitions or of dependentRequired, and a composition or a
\* properties/required pair over a node held
LifecycleArgs(cls) ==
    LET children == Range(held)
    IN  {<<>>}
        \cup {[all_of |-> PyList(<<c>>)] : c \in IF cls = "Schema" THEN {} ELSE children}
        \cup {[properties |-> OneKey("a", c), required |-> PyList(<<PyStr(<<"a">>)>>)] :
                 c \in IF cls = "ObjectSchema" THEN children ELSE {}}
        \cup {[vocabulary |-> OneKey("a", PyBool(TRUE))] : c \in IF cls = "Schema" THEN {1} ELSE {}}
        \cup {[definitions |-> OneKey("a", PyList(<<PyStr(<<"a">>)>>))] :
                 c \in IF cls = "Schema" THEN {1} ELSE {}}
        \cup {[dependent_required |-> OneKey("a", PyList(<<PyStr(<<"a">>)>>))] :
                 c \in IF cls = "ObjectSchema" THEN {1} ELSE {}}

Next ==
    \/ \E cls \in Classes : \E kw \in LifecycleArgs(cls) :
           Len(held) < MaxHeld /\ Construct(cls, kw)
    \/ \E i \in 1..Len(held) : ToDictCall(i)
    \/ \E i \in 1..Len(held) : MutateArgument(i)
    \/ AppendSelf
    \/ MutateResult

Spec == Init /\ [][Next]_vars

---------------------------------------------------------------------------
(* SpecCall: one constructor call at a time, over families of keyword      *)
(* arguments; the node obtained is serialised and let go                   *)

\* the node cls() returns, for each class: no keyword supplied, no field set
Leaves == {Node(c, <<>>) : c \in Classes}
Leaf(c) == CHOOSE x \in Leaves : x.v.cls = c

RECURSIVE SeqsUpTo(_, _)
\* the sequences over S of length at most n
SeqsUpTo(S, n) ==
    IF n = 0 THEN {<<>>}
    ELSE LET shorter == SeqsUpTo(S, n - 1)
         IN  shorter \cup {Append(s, x) : s \in {z \in shorter : Len(z) = n - 1}, x \in S}

RECURSIVE SetsUpTo(_, _)
\* the subsets of S with at most n elements
SetsUpTo(S, n) ==
    IF n = 0 THEN {{}}
    ELSE LET smaller == SetsUpTo(S, n - 1)
         IN  smaller \cup {s \cup {x} : s \in smaller, x \in S}

\* one value of the annotated kind for each keyword (the signatures: schema.py
\* 14-32, array_schema.py 27-43, object_schema.py 28-45)
Sample(cls, n) ==
    IF n \in {"id_", "schema", "ref", "dynamic_ref", "recursive_ref", "comment",
              "anchor", "dynamic_anchor", "title", "description"}
    THEN PyStr(<<"a">>)
    ELSE IF n \in {"recursive_anchor", "deprecated", "read_only", "write_only", "unique_items"}
    THEN PyBool(TRUE)
    ELSE IF n \in {"min_items", "max_items", "min_contains", "max_contains",
                   "min_properties", "max_properties"}
    THEN PyInt(1)
    ELSE IF n = "vocabulary" THEN OneKey("a", PyBool(TRUE))
    ELSE IF n \in {"definitions", "defs", "properties", "pattern_properties", "dependent_schemas"}
    THEN OneKey("a", Leaf("Schema"))
    ELSE IF n = "dependent_required" THEN OneKey("a", PyList(<<PyStr(<<"a">>)>>))
    ELSE IF n = "required" THEN PyList(<<PyStr(<<"a">>)>>)
    ELSE IF n = "prefix_items" THEN PyList(<<Leaf("Schema")>>)
    ELSE IF n \in {"all_of", "any_of", "one_of"} THEN PyList(<<Leaf(cls)>>)
    ELSE IF n \in {"not_", "if_", "then", "else_"} THEN Leaf(cls)
    ELSE Leaf("Schema")

\* values of every kind, right or wrong for a keyword
Palette ==
    {PyStr(<<"a">>), PyStr(<<" ">>), PyStr(<<>>), PyInt(1), PyInt(0), PyInt(-1),
     PyBool(TRUE), PyBool(FALSE), PyFloat(1),
     PyList(<<>>), PyList(<<PyStr(<<"a">>)>>), PyList(<<PyInt(1)>>),
     PyDict(<<>>), OneKey("a", PyBool(TRUE)), OneKey("a", PyInt(1)),
     OneKey(" ", PyBool(TRUE)), PyDict(<<<<PyInt(1), PyBool(TRUE)>>>>)}
    \cup Leaves
    \cup {PyList(<<x>>) : x \in Leaves}
    \cup {OneKey("a", x) : x \in Leaves}

ArrayKeywordSets  == SetsUpTo(Range(Keywords("ArraySchema")), MaxKw)
ObjectKeywordSets == SetsUpTo(Range(Keywords("ObjectSchema")), MaxKw)
SchemaKeywordSets == SetsUpTo(Range(Keywords("Schema")), MaxKw)

\* family 1: up to MaxKw keywords of the signature, each with its sample value
SampleArgs(cls) ==
    {[n \in D |-> Sample(cls, n)] :
        D \in IF cls = "ArraySchema" THEN ArrayKeywordSets
              ELSE IF cls = "ObjectSchema" THEN ObjectKeywordSets
              ELSE SchemaKeywordSets}

\* family 2: one keyword with a value of any kind
KindArgs(cls) ==
    {[m \in {n} |-> x] : n \in Range(Keywords(cls)), x \in Palette}

Bounds == {PyInt(i) : i \in -1..MaxInt}

\* family 3: the range pairs, with and without contains
RangeArgs(cls) ==
    IF cls = "ArraySchema"
    THEN {[min_items |-> a, max_items |-> b] : a \in Bounds, b \in Bounds}
         \cup {[min_contains |-> a, max_contains |-> b] : a \in Bounds, b \in Bounds}
         \cup {[contains |-> c, min_contains |-> a, max_contains |-> b] :
                  c \in Leaves, a \in Bounds, b \in Bounds}
         \cup {[m \in {n} |-> a] : n \in {"min_contains", "max_contains"}, a \in Bounds}
         \cup {[m \in {"contains", n} |-> IF m = n THEN a ELSE c] :
                  n \in {"min_contains", "max_contains"}, a \in Bounds, c \in Leaves}
    ELSE IF cls = "ObjectSchema"
    THEN {[min_properties |-> a, max_properties |-> b] : a \in Bounds, b \in Bounds}
    ELSE {}

\* every string of five tokens, and strings with a fragment
RefStrings  == {PyStr(s) : s \in SeqsUpTo({" ", "//", "[", "]", "v1.a"}, MaxStrLen)}
               \cup {PyStr(<<"//", "#", "[">>), PyStr(<<"//", "#", "]">>),
                     PyStr(<<"//", "[", "v1.a", "#", "]">>),
                     PyStr(<<"//", "[", "v1.a", "]", "#">>),
                     PyStr(<<"//", "[", "v1.a", "]", "#", "a">>),
                     PyStr(<<"#", "//", "[">>), PyStr(<<"v1.a", "#", "zip">>)}
RefKeywords == {"ref", "dynamic_ref", "recursive_ref"}

\* family 4: one reference keyword with any token string, and two or three of
\* them with values right or wrong
RefArgs ==
    {[m \in {n} |-> s] : n \in RefKeywords, s \in RefStrings}
    \cup UNION {[D -> {PyStr(<<"v1.a">>), PyStr(<<>>), PyStr(<<"//", "[">>), PyInt(1)}] :
                    D \in {D \in SUBSET RefKeywords : Cardinality(D) >= 2}}

Members == Leaves \cup {PyStr(<<"a">>)}
MemberLists == {PyList(s) : s \in SeqsUpTo(Members, MaxLen)}
Conditional == {"if_", "then", "else_"}

\* a single-node keyword checked before allOf: array_schema.py 88-90,
\* object_schema.py 118-120
Earlier(cls) == IF cls = "ArraySchema" THEN "contains" ELSE "property_names"

\* family 5: the composition keywords over nodes of every class and a non-node,
\* alone and next to a keyword checked before or after them
CompositionArgs(cls) ==
    IF cls = "Schema" THEN {}
    ELSE {[m \in {n} |-> l] : n \in {"all_of", "any_of", "one_of"}, l \in MemberLists}
         \cup {[m \in {n, k} |-> IF m = n THEN l ELSE x] :
                  n \in {"all_of", "any_of", "one_of"}, l \in MemberLists,
                  k \in {Earlier(cls), "not_"}, x \in Members}
         \cup {[not_ |-> x] : x \in Members}
         \cup UNION {[D -> Members] : D \in SUBSET Conditional}

\* every string of five tokens, and strings with a token of several characters
AnchorStrings  == {PyStr(s) : s \in SeqsUpTo({"a", "1", "-", "#", "\n"}, MaxStrLen)}
                  \cup {PyStr(<<"zip">>), PyStr(<<"a", "zip">>), PyStr(<<"zip", "-">>),
                        PyStr(<<"1", "zip">>), PyStr(<<"zip", "\n">>), PyStr(<<"v1.a">>)}
AnchorKeywords == {"anchor", "dynamic_anchor", "recursive_anchor"}

\* family 7: one anchor keyword with any token string, and two or three of the
\* anchor keywords with values right or wrong
AnchorArgs ==
    {[m \in {n} |-> s] : n \in {"anchor", "dynamic_anchor"}, s \in AnchorStrings}
    \cup UNION {[D -> {PyStr(<<"a">>), PyStr(<<"#">>), PyBool(FALSE), PyBool(TRUE), PyInt(1)}] :
                    D \in {D \in SUBSET AnchorKeywords : Cardinality(D) >= 2}}

ReadWrite == {"read_only", "write_only"}

\* family 8: readOnly and writeOnly, unset, True or False
ReadWriteArgs == UNION {[D -> {PyBool(TRUE), PyBool(FALSE)}] : D \in SUBSET ReadWrite}

DefsKeywords == {"definitions", "defs"}

\* dicts of up to MaxLen entries under distinct keys, of nodes and raw values
DefsDicts ==
    LET entries == {<<k, x>> : k \in {PyStr(<<"a">>), PyStr(<<"1">>), PyStr(<<" ">>), PyInt(1)},
                               x \in {Leaf("ArraySchema"), Leaf("Schema"), PyInt(1),
                                      PyStr(<<"a">>)}}
    IN  {PyDict(s) : s \in {s \in SeqsUpTo(entries, MaxLen) :
                                \A i, j \in 1..Len(s) : s[i][1] = s[j][1] => i = j}}

\* family 9: definitions or $defs alone with any such dict or a value that is no
\* dict, and the two together
DefsArgs ==
    {[m \in {n} |-> d] : n \in DefsKeywords, d \in DefsDicts \cup {PyInt(1), PyList(<<>>)}}
    \cup [DefsKeywords -> {PyDict(<<>>), OneKey("a", Leaf("Schema")), PyInt(1)}]

Names == {PyStr(<<"a">>), PyStr(<<"1">>), PyStr(<<" ", "a">>)}
PatternTokens == {"a", "(", ")", "^", "[a-z]", "+", "$"}

\* family 6: required next to properties, and patternProperties keyed by
\* patterns of letters, character classes, groups, "+", "^" and "$", blank keys
\* included, with nodes and other values
ObjectArgs(cls) ==
    LET PatternValues == {Leaf("Schema"), PyInt(1)}
        PatternKeys   == {PyStr(<<"a">>), PyStr(<<"(">>), PyStr(<<" ">>)}
    IN
    IF cls # "ObjectSchema" THEN {}
    ELSE {[required |-> PyList(r), properties |-> PyDict(ps)] :
             r \in SeqsUpTo(Names, MaxLen),
             ps \in {s \in SeqsUpTo({<<n, Leaf("Schema")>> : n \in Names}, MaxLen) :
                        \A i, j \in 1..Len(s) : s[i] = s[j] => i = j}}
         \cup {[required |-> PyList(r)] : r \in SeqsUpTo(Names, MaxLen)}
         \cup {[pattern_properties |-> PyDict(<<<<PyStr(s), Leaf("Schema")>>>>)] :
                  s \in SeqsUpTo(PatternTokens, MaxStrLen)}
         \cup {[pattern_properties |-> PyDict(<<<<PyStr(s), PyInt(1)>>>>)] :
                  s \in SeqsUpTo(PatternTokens, MaxLen)}
         \cup {[pattern_properties |-> PyDict(<<<<p[1], x>>, <<p[2], y>>>>)] :
                  p \in {q \in PatternKeys \X PatternKeys : q[1] # q[2]},
                  x \in PatternValues, y \in PatternValues}

\* the node cls(title="a", deprecated=True) returns, and an ArraySchema that
\* holds such a node under contains
Inner(c) == Node(c, [title |-> PyStr(<<"a">>), deprecated |-> PyBool(TRUE)])

\* the values a keyword takes that hold the node x: x itself, lists with x
\* first and last, a dict with x under the first of two keys
Holding(cls, n, x) ==
    IF n \in ListValued
    THEN {PyList(<<x, Leaf(cls)>>), PyList(<<Leaf(cls), x>>)}
    ELSE IF n \in DictValued \cup DefsValued
    THEN {PyDict(<<<<PyStr(<<"b">>), x>>, <<PyStr(<<"a">>), Leaf(cls)>>>>)}
    ELSE IF n = "items"
    THEN {x, PyList(<<x, Leaf(cls)>>), PyList(<<Leaf(cls), x>>)}
    ELSE {x}

\* family 10: every keyword that takes nodes, with nodes that have keywords of
\* their own; then and else_ next to if_
NestedArgs(cls) ==
    LET Nested == {Inner(c) : c \in Classes}
                  \cup {Node("ArraySchema", [contains |-> Inner("Schema")])}
    IN
    UNION {{[m \in {n} \cup (IF n \in {"then", "else_"} THEN {"if_"} ELSE {}) |->
                IF m = n THEN v ELSE Leaf(cls)] : v \in Holding(cls, n, x)} :
              n \in Range(Keywords(cls)) \cap
                     (ListValued \cup DictValued \cup DefsValued \cup NodeValued
                      \cup NodeOrBool \cup {"items"}),
              x \in Nested}


\* family 11: up to MaxKw keywords of the signature, each with a value its
\* check refuses, and a required name missing from properties next to one
\* other ObjectSchema keyword so valued.  Unsuited(n) is a value the check of
\* keyword n refuses: a negative bound, and an int where no int is taken
\* (comment, title, description and deprecated have no check)
ViolationArgs(cls) ==
    LET Unsuited(n) ==
            IF n \in {"min_items", "max_items", "min_contains", "max_contains",
                      "min_properties", "max_properties"}
            THEN PyInt(-1) ELSE PyInt(1)
    IN
    {[n \in D |-> Unsuited(n)] :
        D \in IF cls = "ArraySchema" THEN ArrayKeywordSets
              ELSE IF cls = "ObjectSchema" THEN ObjectKeywordSets
              ELSE SchemaKeywordSets}
    \cup (IF cls # "ObjectSchema" THEN {}
          ELSE {[m \in {"required", "properties", n} |->
                    IF m = "required" THEN PyList(<<PyStr(<<"a">>)>>)
                    ELSE IF m = "properties" THEN PyDict(<<>>)
                    ELSE Unsuited(n)] :
                   n \in Range(ObjectKeywords) \ {"required", "properties"}})

CallArgs(cls) ==
    SampleArgs(cls) \cup KindArgs(cls) \cup RangeArgs(cls) \cup RefArgs
    \cup CompositionArgs(cls) \cup ObjectArgs(cls) \cup AnchorArgs
    \cup ReadWriteArgs \cup DefsArgs \cup NestedArgs(cls) \cup ViolationArgs(cls)

NextCall ==
    \/ last = NoCall /\ \E cls \in Classes : \E kw \in CallArgs(cls) : Construct(cls, kw)
    \/ ToDictCall(1)
    \/ Discard

SpecCall == Init /\ [][NextCall]_vars

---------------------------------------------------------------------------
(* SpecPair: a caller that builds nodes from keyword arguments of several    *)
(* keywords, some of them equal to each other, and serialises them one       *)
(* after the other                                                           *)

\* the keyword arguments drawn: calls that set two or three keywords, dicts of
\* two entries written in either order, numbers that compare equal (True == 1),
\* and lists and dicts inside a dict
PairArgs(cls) ==
    LET a == PyStr(<<"a">>)
        z == PyStr(<<"zip">>)
        Both(x, y) == {PyDict(<<x, y>>), PyDict(<<y, x>>)}
    IN  IF cls = "Schema"
        THEN {<<>>, [title |-> a, comment |-> a],
              [deprecated |-> PyBool(TRUE)], [deprecated |-> PyInt(1)]}
             \cup {[vocabulary |-> d] : d \in Both(<<a, PyBool(TRUE)>>, <<z, PyBool(FALSE)>>)}
             \cup {[definitions |-> d] :
                      d \in Both(<<a, PyList(<<a>>)>>, <<z, Leaf("ArraySchema")>>)}
        ELSE IF cls = "ArraySchema"
        THEN {[min_items |-> PyInt(0), max_items |-> PyInt(1), title |-> a],
              [prefix_items |-> PyList(<<Leaf("Schema"), Leaf("ObjectSchema")>>),
               unique_items |-> PyBool(TRUE)]}
        ELSE {[properties |-> d, required |-> PyList(<<a, z>>)] :
                 d \in Both(<<a, Leaf("Schema")>>, <<z, Leaf("ArraySchema")>>)}
             \cup {[dependent_required |-> d] :
                      d \in Both(<<a, PyList(<<z>>)>>, <<z, PyList(<<a>>)>>)}

NextPair ==
    \/ \E cls \in Classes : \E kw \in PairArgs(cls) :
           Len(held) < MaxHeld /\ Construct(cls, kw)
    \/ \E i \in 1..Len(held) : ToDictCall(i)

SpecPair == Init /\ [][NextPair]_vars

---------------------------------------------------------------------------
(* SpecField: one Field call at a time, over families of keyword arguments  *)

FieldParams   == FieldStringParams \cup FieldArrayParams \cup FieldIntegerParams
                 \cup {"excluvie_maximum"}

\* the values drawn for each type-specific parameter, falsy ones among them
FieldValues(n) ==
    IF n \in {"const", "pattern"} THEN {PyStr(<<>>), PyStr(<<"a">>)}
    ELSE IF n = "enum" THEN {PyList(<<>>), PyList(<<PyStr(<<"a">>)>>)}
    ELSE IF n = "items" THEN {Leaf("Schema")}
    ELSE IF n = "prefix_items" THEN {PyList(<<>>), PyList(<<Leaf("Schema")>>)}
    ELSE IF n \in FieldIntegerParams \cup {"excluvie_maximum"}
    THEN {PyInt(0), PyInt(1), PyFloat(1)}
    ELSE {PyInt(0), PyInt(1)}

\* up to k type-specific parameters, each with one of its values
FieldSpecifics(k) ==
    UNION {{f \in [D -> UNION {FieldValues(n) : n \in D}] : \A n \in D : f[n] \in FieldValues(n)} :
              D \in SetsUpTo(FieldParams, k)}

\* the calls drawn with a title: a default or none, and either no type_ and up
\* to MaxKw type-specific parameters, or a type_ and at most one of them
FieldArgs(title) ==
    LET defaults == {PyBool(TRUE), PyBool(FALSE), PyInt(0), PyInt(1), PyFloat(0), PyFloat(1),
                     PyStr(<<>>), PyStr(<<"a">>)}
        types    == {"string", "integer", "number", "boolean", "array", "text"}
        plain    == {Merge([title |-> title], f) : f \in FieldSpecifics(MaxKw)}
        typed    == {Merge([title |-> title, type_ |-> PyStr(<<t>>)], f) :
                        t \in types, f \in FieldSpecifics(1)}
    IN  UNION {{f} \cup {Merge(f, [default |-> d]) : d \in defaults} : f \in plain \cup typed}

NextField ==
    \/ last = NoCall /\ \E a \in FieldArgs(PyStr(<<"t">>)) : FieldCall(a)
    \/ Discard

SpecField == Init /\ [][NextField]_vars

---------------------------------------------------------------------------
(* The claims *)

StrKey(name) == PyStr(<<name>>)
HasKey(d, name) == StrKey(name) \in Keys(d)
Get(d, name) == Lookup(d, StrKey(name))
HowMany(d, names) == Cardinality({n \in names : HasKey(d, n)})

\* the construction rules, read off a serialised document d
NonEmptyWhenPresent(d, name) ==
    HasKey(d, name) => Get(d, name).k = "list" /\ Get(d, name).v # <<>>

MinAtMostMax(d, lo, hi) ==
    (HasKey(d, lo) /\ HasKey(d, hi)) => IntVal(Get(d, lo)) <= IntVal(Get(d, hi))

RequiredAreProperties(d) ==
    (HasKey(d, "required") /\ HasKey(d, "properties")) =>
        \A i \in 1..Len(Get(d, "required").v) :
            Get(d, "required").v[i] \in Keys(Get(d, "properties"))

ObeysConstructionRules(d) ==
    /\ HowMany(d, {"$ref", "$dynamicRef", "$recursiveRef"}) <= 1
    /\ HowMany(d, {"$anchor", "$dynamicAnchor", "$recursiveAnchor"}) <= 1
    /\ HowMany(d, {"definitions", "$defs"}) <= 1
    /\ ~(/\ HasKey(d, "readOnly") /\ Get(d, "readOnly") = PyBool(TRUE)
         /\ HasKey(d, "writeOnly") /\ Get(d, "writeOnly") = PyBool(TRUE))
    /\ \A n \in {"allOf", "anyOf", "oneOf"} : NonEmptyWhenPresent(d, n)
    /\ (HasKey(d, "then") \/ HasKey(d, "else")) => HasKey(d, "if")
    /\ MinAtMostMax(d, "minItems", "maxItems")
    /\ MinAtMostMax(d, "minProperties", "maxProperties")
    /\ MinAtMostMax(d, "minContains", "maxContains")
    /\ (HasKey(d, "minContains") \/ HasKey(d, "maxContains")) => HasKey(d, "contains")
    /\ RequiredAreProperties(d)

\* C1 (as claimed): every mapping to_dict returns for a node the caller obtained,
\* whatever the caller did before with the lists and dicts it passed in or got
\* back, satisfies the construction rules.
C1_EveryDocumentObeysRules ==
    (out.node # 0 /\ ~IsRaised(out.d)) => ObeysConstructionRules(out.d)

\* C2 (as claimed): no step a caller can take after construction changes what
\* to_dict returns for a node it holds.
C2_ToDictNeverChanges ==
    [][\A i \in 1..Len(held) :
          i <= Len(held') => ToDict(held'[i], store', 1) = ToDict(held[i], store, 1)]_vars

\* the key the specification gives for each keyword (its sections 4.1 to 4.3)
SpecSpelling ==
    [id_ |-> "$id", schema |-> "$schema", ref |-> "$ref", dynamic_ref |-> "$dynamicRef",
     recursive_ref |-> "$recursiveRef", definitions |-> "definitions", defs |-> "$defs",
     comment |-> "$comment", anchor |-> "$anchor", dynamic_anchor |-> "$dynamicAnchor",
     recursive_anchor |-> "$recursiveAnchor", vocabulary |-> "$vocabulary",
     title |-> "title", description |-> "description", deprecated |-> "deprecated",
     read_only |-> "readOnly", write_only |-> "writeOnly",
     items |-> "items", prefix_items |-> "prefixItems", contains |-> "contains",
     min_items |-> "minItems", max_items |-> "maxItems",
     min_contains |-> "minContains", max_contains |-> "maxContains",
     unique_items |-> "uniqueItems", unevaluated_items |-> "unevaluatedItems",
     all_of |-> "allOf", any_of |-> "anyOf", one_of |-> "oneOf", not_ |-> "not",
     if_ |-> "if", then |-> "then", else_ |-> "else",
     properties |-> "properties", pattern_properties |-> "patternProperties",
     additional_properties |-> "additionalProperties",
     unevaluated_properties |-> "unevaluatedProperties", required |-> "required",
     property_names |-> "propertyNames", min_properties |-> "minProperties",
     max_properties |-> "maxProperties", dependent_required |-> "dependentRequired",
     dependent_schemas |-> "dependentSchemas"]

\* the node of the last call was serialised
Serialised == last.exc = "ok" /\ out.node = 1 /\ ~IsRaised(out.d)

\* C3: the keys of to_dict() are exactly the canonical spellings of the keywords
\* supplied as non-None, plus "type" for ArraySchema and ObjectSchema, each once.
C3_KeysAreTheSuppliedKeywords ==
    Serialised =>
        /\ Keys(out.d) = {StrKey(SpecSpelling[n]) : n \in DOMAIN last.kw}
                         \cup (IF last.cls = "Schema" THEN {} ELSE {StrKey("type")})
        /\ Len(out.d.v) = Cardinality(Keys(out.d))

C3_Witness ==
    /\ Serialised
    /\ last.cls = "ObjectSchema"
    /\ DOMAIN last.kw = {"recursive_ref", "pattern_properties"}

\* the checks a constructor of cls makes of kw, base and subclass
RulesOf(cls, kw) ==
    SchemaRules(Restrict(kw, Range(BaseKeywords)))
    \o (IF cls = "ArraySchema" THEN ArrayRules(kw)
        ELSE IF cls = "ObjectSchema" THEN ObjectRules(kw) ELSE <<>>)

SomeRuleViolated(cls, kw) ==
    \E i \in 1..Len(RulesOf(cls, kw)) : RulesOf(cls, kw)[i].exc # "ok"

\* C4: a constructor call whose arguments violate any rule, of the base or of the
\* subclass, raises and leaves the caller without a node; a call that violates
\* none returns a node of the class holding every attribute.
C4_ConstructionIsAtomic ==
    last.exc # "none" =>
        IF SomeRuleViolated(last.cls, last.kw)
        THEN last.exc \in {"ValueError", "TypeError"} /\ held = <<>>
        ELSE /\ last.exc = "ok"
             /\ Len(held) = 1
             /\ held[1].v.cls = last.cls
             /\ DOMAIN held[1].v.f = DOMAIN last.kw
             /\ last.attrs = IF last.cls = "Schema" THEN "base" ELSE "all"

\* a subclass check raised after the base constructor had stored its attributes
C4_Witness ==
    /\ last.exc \in {"ValueError", "TypeError"}
    /\ last.attrs = "base"
    /\ held = <<>>

\* the fundamental kind the signature annotates for each keyword
RightKind(n, x) ==
    IF n \in {"id_", "schema", "ref", "dynamic_ref", "recursive_ref", "comment",
              "anchor", "dynamic_anchor", "title", "description"}
    THEN x.k = "str"
    ELSE IF n \in {"recursive_anchor", "deprecated", "read_only", "write_only", "unique_items"}
    THEN x.k = "bool"
    ELSE IF n \in {"min_items", "max_items", "min_contains", "max_contains",
                   "min_properties", "max_properties"}
    THEN x.k \in {"int", "bool"}
    ELSE IF n \in {"definitions", "defs", "vocabulary", "properties", "pattern_properties",
                   "dependent_required", "dependent_schemas"}
    THEN x.k = "dict"
    ELSE IF n \in {"prefix_items", "required", "all_of", "any_of", "one_of"}
    THEN x.k = "list"
    ELSE IF n \in {"unevaluated_items", "additional_properties", "unevaluated_properties"}
    THEN x.k \in {"node", "bool"}
    ELSE IF n = "items" THEN x.k \in {"node", "list"}
    ELSE x.k = "node"

\* C5 (as claimed): a failure over a value of the wrong fundamental kind is a
\* TypeError, and a failure over values of the right kind (scalars here) is a
\* ValueError.
C5_ErrorKindsNeverSwapped ==
    last.exc \in {"ValueError", "TypeError"} =>
        /\ (\E n \in DOMAIN last.kw :
                DOMAIN last.kw = {n} /\ ~RightKind(n, last.kw[n]))
            => last.exc = "TypeError"
        /\ (\A n \in DOMAIN last.kw :
                RightKind(n, last.kw[n]) /\ last.kw[n].k \in {"str", "int", "bool"})
            => last.exc = "ValueError"

RangePairs ==
    {[cls |-> "ArraySchema", lo |-> "min_items", hi |-> "max_items", with |-> {}],
     [cls |-> "ObjectSchema", lo |-> "min_properties", hi |-> "max_properties", with |-> {}],
     [cls |-> "ArraySchema", lo |-> "min_contains", hi |-> "max_contains",
      with |-> {"contains"}]}

\* the last call is the range pair p with non-negative integers and nothing else
\* (but a node for contains, where the pair needs it)
IsRangeCall(p) ==
    /\ last.cls = p.cls
    /\ DOMAIN last.kw = {p.lo, p.hi} \cup p.with
    /\ last.kw[p.lo].k = "int" /\ last.kw[p.lo].v >= 0
    /\ last.kw[p.hi].k = "int" /\ last.kw[p.hi].v >= 0
    /\ \A n \in p.with : IsSchema(last.kw[n])

\* C6: a range pair (min = a, max = b) of non-negative integers is accepted when
\* a <= b and raises ValueError when a > b, for minItems/maxItems,
\* minProperties/maxProperties and, with contains given, minContains/maxContains.
C6_RangePairs ==
    \A p \in RangePairs :
        IsRangeCall(p) =>
            last.exc = IF last.kw[p.lo].v <= last.kw[p.hi].v THEN "ok" ELSE "ValueError"

C6_Witness ==
    \E p \in RangePairs :
        /\ IsRangeCall(p)
        /\ p.with # {}
        /\ last.kw[p.lo].v > last.kw[p.hi].v
        /\ last.exc = "ValueError"

\* RFC 3986, for a string of tokens: unreserved characters and sub-delimiters
\* may stand in a path, a registered name or a fragment; '/' in a path or a
\* fragment; '[' and ']' only around an IP literal that is the whole host;
\* '#' once, before the fragment; white space nowhere
UriChars == {"a", "1", "-", "_", "v1.a", "zip", "(", ")"}

IsUriPath(s) == \A i \in 1..Len(s) : s[i] \in UriChars \cup {"//"}

\* host of an authority: a registered name, or "[" IPvFuture "]"
IsUriHost(s) ==
    \/ \A i \in 1..Len(s) : s[i] \in UriChars
    \/ /\ Len(s) >= 3
       /\ s[1] = "[" /\ s[2] = "v1.a" /\ s[Len(s)] = "]"
       /\ \A i \in 3..(Len(s) - 1) : s[i] \in UriChars

IsUriReference(s) ==
    LET hash == FirstIn(s, {"#"})
        main == SubSeq(s, 1, hash - 1)
        frag == SubSeq(s, hash + 1, Len(s))
    IN  /\ IsUriPath(frag)
        /\ IF main # <<>> /\ Head(main) = "//"
           THEN LET rest  == Tail(main)
                    slash == FirstIn(rest, {"//"})
                IN  /\ IsUriHost(SubSeq(rest, 1, slash - 1))
                    /\ IsUriPath(SubSeq(rest, slash, Len(rest)))
           ELSE IsUriPath(main)

\* the last call supplied the reference keyword n and nothing else
OnlyKeyword(n) == last.exc # "none" /\ DOMAIN last.kw = {n}

\* C7: a call that supplies two or three of ref, dynamic_ref, recursive_ref
\* fails, whatever their values; a call that supplies one of them, a non-blank
\* string that is a URI-reference, and nothing else, succeeds.
C7_ReferenceGroup ==
    /\ (last.exc # "none" /\ Cardinality(DOMAIN last.kw \cap RefKeywords) >= 2)
           => last.exc \in {"ValueError", "TypeError"}
    /\ \A n \in RefKeywords :
           (/\ OnlyKeyword(n)
            /\ IsStr(last.kw[n])
            /\ ~IsBlank(last.kw[n].v)
            /\ IsUriReference(last.kw[n].v))
           => last.exc = "ok"

\* a reference whose host is an IP literal was accepted
C7_Witness ==
    /\ OnlyKeyword("dynamic_ref")
    /\ last.kw.dynamic_ref = PyStr(<<"//", "[", "v1.a", "]">>)
    /\ last.cls = "ArraySchema"
    /\ last.exc = "ok"

CompositionLists == {"all_of", "any_of", "one_of"}
CompositionNodes == {"not_", "if_", "then", "else_"}

\* the values in the composition slots of the last call: the members of the lists
\* and the single nodes
SlotValues ==
    UNION {Range(last.kw[n].v) : n \in {m \in DOMAIN last.kw \cap CompositionLists :
                                            last.kw[m].k = "list"}}
    \cup {last.kw[n] : n \in DOMAIN last.kw \cap CompositionNodes}

\* the last call supplied composition keywords only, the lists not empty, and
\* then or else only with if
IsCompositionCall ==
    /\ last.exc # "none"
    /\ DOMAIN last.kw # {}
    /\ DOMAIN last.kw \subseteq CompositionLists \cup CompositionNodes
    /\ \A n \in DOMAIN last.kw \cap CompositionLists :
           last.kw[n].k = "list" /\ last.kw[n].v # <<>>
    /\ ({"then", "else_"} \cap DOMAIN last.kw # {}) => "if_" \in DOMAIN last.kw

\* C8: an ArraySchema call with a base Schema or an ObjectSchema in a slot of
\* all_of, any_of, one_of, not_, if_, then, else_ fails; an ObjectSchema call
\* over these slots succeeds with nodes of any class in them and fails with a
\* value that is not a node.
C8_CompositionFamily ==
    /\ (last.cls = "ArraySchema"
        /\ \E x \in SlotValues : IsSchema(x) /\ x.v.cls # "ArraySchema")
           => last.exc \in {"ValueError", "TypeError"}
    /\ (last.cls = "ArraySchema" /\ IsCompositionCall
        /\ \A x \in SlotValues : IsSchema(x) /\ x.v.cls = "ArraySchema")
           => last.exc = "ok"
    /\ (last.cls = "ObjectSchema" /\ IsCompositionCall)
           => (last.exc = "ok" <=> \A x \in SlotValues : IsSchema(x))
    /\ (last.cls = "ObjectSchema" /\ \E x \in SlotValues : ~IsSchema(x))
           => last.exc \in {"ValueError", "TypeError"}

\* an ObjectSchema took an ArraySchema and a base Schema in a list an ArraySchema
\* would refuse
C8_Witness ==
    /\ last.cls = "ObjectSchema"
    /\ OnlyKeyword("any_of")
    /\ last.kw.any_of = PyList(<<Leaf("ArraySchema"), Leaf("Schema")>>)
    /\ last.exc = "ok"

\* the last call without the keyword n
Without(n) == InitOf(last.cls, Restrict(last.kw, DOMAIN last.kw \ {n}))

\* C9: all_of, any_of or one_of given as an empty list makes an ArraySchema or
\* ObjectSchema call fail, and with ValueError whenever the rest of the call
\* breaks no rule; a non-empty list of members of the accepted family, alone,
\* succeeds.
C9_EmptyComposition ==
    \A n \in CompositionLists :
        /\ (last.cls \in {"ArraySchema", "ObjectSchema"}
            /\ n \in DOMAIN last.kw /\ last.kw[n] = PyList(<<>>))
               => /\ last.exc \in {"ValueError", "TypeError"}
                  /\ Without(n).res = Ok => last.exc = "ValueError"
        /\ (last.cls \in {"ArraySchema", "ObjectSchema"}
            /\ OnlyKeyword(n) /\ last.kw[n].k = "list" /\ last.kw[n].v # <<>>
            /\ \A x \in Range(last.kw[n].v) :
                   IF last.cls = "ArraySchema" THEN IsArraySchema(x) ELSE IsSchema(x))
               => last.exc = "ok"

C9_Witness ==
    /\ last.cls = "ObjectSchema"
    /\ OnlyKeyword("one_of")
    /\ last.kw.one_of = PyList(<<>>)
    /\ last.exc = "ValueError"

\* C10: in ArraySchema and ObjectSchema, then or else_ without if_ fails; if_
\* alone succeeds, and so does if_ with then and else_, for members of the
\* accepted family.
C10_ConditionalGroup ==
    last.cls \in {"ArraySchema", "ObjectSchema"} =>
        /\ ({"then", "else_"} \cap DOMAIN last.kw # {} /\ "if_" \notin DOMAIN last.kw)
               => last.exc \in {"ValueError", "TypeError"}
        /\ (DOMAIN last.kw \in {{"if_"}, {"if_", "then", "else_"}}
            /\ \A n \in DOMAIN last.kw :
                   IF last.cls = "ArraySchema" THEN IsArraySchema(last.kw[n])
                   ELSE IsSchema(last.kw[n]))
               => last.exc = "ok"

\* else_ alone was refused
C10_Witness ==
    /\ last.cls = "ArraySchema"
    /\ OnlyKeyword("else_")
    /\ IsArraySchema(last.kw.else_)
    /\ last.exc = "ValueError"

\* the last call is an ObjectSchema call with a non-empty list of non-blank
\* names as required, and with no keyword but those of ks
IsRequiredCall(ks) ==
    /\ last.cls = "ObjectSchema"
    /\ DOMAIN last.kw = ks
    /\ IsList(last.kw.required) /\ last.kw.required.v # <<>>
    /\ \A i \in 1..Len(last.kw.required.v) :
           IsStr(last.kw.required.v[i]) /\ ~IsBlank(last.kw.required.v[i].v)

\* the last call gave properties as a dict of nodes under non-blank str keys
NodesByName(d) ==
    /\ IsDict(d)
    /\ \A j \in 1..Len(d.v) : IsStr(d.v[j][1]) /\ ~IsBlank(d.v[j][1].v) /\ IsSchema(d.v[j][2])

\* the required names of the last call that are no key of its properties
MissingNames ==
    {i \in 1..Len(last.kw.required.v) :
        \A j \in 1..Len(last.kw.properties.v) :
            last.kw.properties.v[j][1] # last.kw.required.v[i]}

\* C11: an ObjectSchema call with required and properties succeeds exactly when
\* every required name is a key of properties, and otherwise raises ValueError
\* with a message that cites a missing name; with required alone, every
\* non-empty list of non-blank names is accepted.
C11_RequiredAreProperties ==
    /\ (IsRequiredCall({"required", "properties"}) /\ NodesByName(last.kw.properties))
           => IF MissingNames = {} THEN last.exc = "ok"
              ELSE /\ last.exc = "ValueError"
                   /\ \E i \in MissingNames :
                          last.msg = "required property '" \o Text(last.kw.required.v[i].v)
                                     \o "' is not defined in properties"
    /\ IsRequiredCall({"required"}) => last.exc = "ok"

\* the second of two required names was missing and was cited
C11_Witness ==
    /\ IsRequiredCall({"required", "properties"})
    /\ last.kw.required = PyList(<<PyStr(<<"a">>), PyStr(<<"1">>)>>)
    /\ last.kw.properties = PyDict(<<<<PyStr(<<"a">>), Leaf("Schema")>>>>)
    /\ last.exc = "ValueError"
    /\ last.msg = "required property '1' is not defined in properties"

ContainsBounds == {"min_contains", "max_contains"}

\* C12: an ArraySchema call with min_contains or max_contains and without
\* contains fails, whatever the bound (0 included); a call with contains a
\* schema node, non-negative integer bounds with min <= max and nothing else
\* succeeds.
C12_ContainsDependency ==
    last.cls = "ArraySchema" =>
        /\ (DOMAIN last.kw \cap ContainsBounds # {} /\ "contains" \notin DOMAIN last.kw)
               => last.exc \in {"ValueError", "TypeError"}
        /\ (/\ DOMAIN last.kw \cap ContainsBounds # {}
            /\ DOMAIN last.kw \subseteq ContainsBounds \cup {"contains"}
            /\ "contains" \in DOMAIN last.kw /\ IsSchema(last.kw.contains)
            /\ \A n \in DOMAIN last.kw \cap ContainsBounds :
                   last.kw[n].k = "int" /\ last.kw[n].v >= 0
            /\ (ContainsBounds \subseteq DOMAIN last.kw
                   => last.kw.min_contains.v <= last.kw.max_contains.v))
               => last.exc = "ok"

\* minContains = 0 alone was refused for want of contains
C12_Witness ==
    /\ last.cls = "ArraySchema"
    /\ OnlyKeyword("min_contains")
    /\ last.kw.min_contains = PyInt(0)
    /\ last.exc = "ValueError"
    /\ last.msg = "minContains requires contains to be specified"

\* the fragment-identifier grammar, for a string of tokens: a leading letter,
\* then letters, digits, '-' and '_' ("zip" is three letters)
IsFragmentIdentifier(s) ==
    /\ s # <<>>
    /\ s[1] \in {"a", "zip"}
    /\ \A i \in 1..Len(s) : s[i] \in {"a", "1", "-", "_", "zip"}

\* C13: a call that supplies two or three of anchor, dynamic_anchor,
\* recursive_anchor fails, recursive_anchor = False counting as supplied; a call
\* that supplies one of them and nothing else, a string of the grammar for
\* anchor and dynamic_anchor or a boolean for recursive_anchor, succeeds.
C13_AnchorGroup ==
    /\ (last.exc # "none" /\ Cardinality(DOMAIN last.kw \cap AnchorKeywords) >= 2)
           => last.exc \in {"ValueError", "TypeError"}
    /\ \A n \in {"anchor", "dynamic_anchor"} :
           (OnlyKeyword(n) /\ IsStr(last.kw[n]) /\ IsFragmentIdentifier(last.kw[n].v))
               => last.exc = "ok"
    /\ (OnlyKeyword("recursive_anchor") /\ last.kw.recursive_anchor.k = "bool")
           => last.exc = "ok"

\* recursive_anchor = False next to a valid anchor was refused
C13_Witness ==
    /\ DOMAIN last.kw = {"anchor", "recursive_anchor"}
    /\ last.kw.anchor = PyStr(<<"a">>)
    /\ last.kw.recursive_anchor = PyBool(FALSE)
    /\ last.exc = "ValueError"

\* C14: a call with read_only = True and write_only = True fails; a call with
\* any other combination of the two over unset, True, False, and nothing else,
\* succeeds.
C14_ReadOnlyWriteOnly ==
    /\ (/\ last.exc # "none"
        /\ ReadWrite \subseteq DOMAIN last.kw
        /\ last.kw.read_only = PyBool(TRUE) /\ last.kw.write_only = PyBool(TRUE))
           => last.exc \in {"ValueError", "TypeError"}
    /\ (/\ last.exc # "none"
        /\ DOMAIN last.kw \subseteq ReadWrite
        /\ \A n \in DOMAIN last.kw : last.kw[n].k = "bool"
        /\ \E n \in ReadWrite : n \in DOMAIN last.kw => last.kw[n] = PyBool(FALSE))
           => last.exc = "ok"

\* both True was refused, in an ObjectSchema
C14_Witness ==
    /\ last.cls = "ObjectSchema"
    /\ DOMAIN last.kw = ReadWrite
    /\ last.kw.read_only = PyBool(TRUE) /\ last.kw.write_only = PyBool(TRUE)
    /\ last.exc = "ValueError"
    /\ last.msg = "Schema cannot be both readOnly and writeOnly"

\* what to_dict is to emit for a dict of definitions: each node as its own
\* to_dict result, each raw value as it is, under the same keys in the same order
EmittedDefs(d) ==
    PyDict([i \in 1..Len(d.v) |->
               <<d.v[i][1], IF IsSchema(d.v[i][2]) THEN ToDict(d.v[i][2], store, 1)
                            ELSE d.v[i][2]>>])

\* C15: a call with both definitions and defs fails, even with empty mappings;
\* a call with one of them and nothing else succeeds exactly when the value is a
\* dict whose keys are all non-blank strs, whatever the values; to_dict then
\* emits the nodes as their to_dict results and the raw values unchanged.
C15_DefinitionsGroup ==
    /\ (last.exc # "none" /\ DefsKeywords \subseteq DOMAIN last.kw)
           => last.exc \in {"ValueError", "TypeError"}
    /\ \A n \in DefsKeywords :
           OnlyKeyword(n) =>
               /\ last.exc = "ok" <=>
                      /\ IsDict(last.kw[n])
                      /\ \A i \in 1..Len(last.kw[n].v) :
                             /\ IsStr(last.kw[n].v[i][1])
                             /\ ~IsBlank(last.kw[n].v[i][1].v)
               /\ Serialised => Get(out.d, SpecSpelling[n]) = EmittedDefs(last.kw[n])

\* $defs with a node and a raw value was accepted and serialised
C15_Witness ==
    /\ OnlyKeyword("defs")
    /\ last.kw.defs = PyDict(<<<<PyStr(<<"a">>), Leaf("ArraySchema")>>,
                               <<PyStr(<<"1">>), PyInt(1)>>>>)
    /\ Serialised
    /\ Get(out.d, "$defs") =
           PyDict(<<<<PyStr(<<"a">>), PyDict(<<<<PyStr(<<"type">>), PyStr(<<"array">>)>>>>)>>,
                    <<PyStr(<<"1">>), PyInt(1)>>>>)

\* the mapping with the one entry key: value, both strs
OneEntry(key, value) == PyDict(<<<<PyStr(<<key>>), PyStr(<<value>>)>>>>)

\* C16: to_dict of an ArraySchema has "type": "array" and to_dict of an
\* ObjectSchema has "type": "object", whatever else was supplied; of a node built
\* with no keyword it is exactly that entry, and the empty mapping for a Schema.
C16_TypeKey ==
    Serialised =>
        /\ last.cls = "ArraySchema" =>
               /\ HasKey(out.d, "type") /\ Get(out.d, "type") = PyStr(<<"array">>)
               /\ last.kw = <<>> => out.d = OneEntry("type", "array")
        /\ last.cls = "ObjectSchema" =>
               /\ HasKey(out.d, "type") /\ Get(out.d, "type") = PyStr(<<"object">>)
               /\ last.kw = <<>> => out.d = OneEntry("type", "object")
        /\ last.cls = "Schema" =>
               /\ ~HasKey(out.d, "type")
               /\ last.kw = <<>> => out.d = PyDict(<<>>)

\* ArraySchema() was serialised
C16_Witness ==
    /\ Serialised
    /\ last.cls = "ArraySchema"
    /\ last.kw = <<>>
    /\ out.d = OneEntry("type", "array")

---------------------------------------------------------------------------
(* C17 *)

\* x == y as Python evaluates it on what the references hold in st: numbers by
\* value (True == 1 == 1.0), lists entry by entry, dicts key by key in whatever
\* order they were written, a node only with itself
RECURSIVE PyEq(_, _, _)
PyEq(x, y, st) ==
    LET a == AsIs(x, st)
        b == AsIs(y, st)
        Num(n) == IF n.k = "bool" THEN (IF n.v THEN 1 ELSE 0) ELSE n.v
    IN  IF a.k \in {"bool", "int", "float"} /\ b.k \in {"bool", "int", "float"}
        THEN Num(a) = Num(b)
        ELSE IF a.k # b.k THEN FALSE
        ELSE IF a.k = "list"
        THEN /\ Len(a.v) = Len(b.v)
             /\ \A i \in 1..Len(a.v) : PyEq(a.v[i], b.v[i], st)
        ELSE IF a.k = "dict"
        THEN /\ Len(a.v) = Len(b.v)
             /\ \A i \in 1..Len(a.v) : \E j \in 1..Len(b.v) :
                    PyEq(a.v[i][1], b.v[j][1], st) /\ PyEq(a.v[i][2], b.v[j][2], st)
        ELSE a = b

\* the keyword values node i was built from, lists and dicts by their content
Supplied(i) ==
    [n \in DOMAIN held[i].v.f |-> <<held[i].v.f[n].k, Content(held[i].v.f[n], store)>>]

\* nodes i and j are of one class and their keyword arguments are written alike,
\* every dict with its entries in the same order
WrittenAlike(i, j) == held[i].v.cls = held[j].v.cls /\ Supplied(i) = Supplied(j)

\* kwargs_i == kwargs_j for two nodes of one class
EqualArguments(i, j) ==
    /\ held[i].v.cls = held[j].v.cls
    /\ DOMAIN held[i].v.f = DOMAIN held[j].v.f
    /\ \A n \in DOMAIN held[i].v.f : PyEq(held[i].v.f[n], held[j].v.f[n], store)

\* list(d): the keys of a mapping in their order
KeysInOrder(d) == IF d.k = "dict" THEN [e \in 1..Len(d.v) |-> d.v[e][1]] ELSE <<>>

---------------------------------------------------------------------------
(* C18 *)

\* C18: to_dict on every node a successful construction returned returns a
\* mapping: it raises neither AttributeError (every value it descends into is a
\* node) nor RecursionError (no node is reachable from itself, and the calls
\* nest no deeper than the tree).
C18_ToDictIsTotal ==
    \A i \in 1..Len(held) : ~IsRaised(ToDict(held[i], store, 1))

---------------------------------------------------------------------------
(* C19 *)

BoundKeywords   == {"min_items", "max_items", "min_contains", "max_contains",
                    "min_properties", "max_properties"}
BooleanKeywords == {"recursive_anchor", "deprecated", "read_only", "write_only",
                    "unique_items"} \cup NodeOrBool
TextKeywords    == {"comment", "title", "description"}
MappingKeywords == {"definitions", "defs", "vocabulary", "properties",
                    "pattern_properties", "dependent_required", "dependent_schemas"}

\* the keywords of the last call supplied with the falsy value of their kind
SuppliedFalsy ==
    {n \in DOMAIN last.kw :
        \/ n \in BoundKeywords /\ last.kw[n] = PyInt(0)
        \/ n \in BooleanKeywords /\ last.kw[n] = PyBool(FALSE)
        \/ n \in TextKeywords /\ last.kw[n] = PyStr(<<>>)
        \/ n \in MappingKeywords /\ last.kw[n] = PyDict(<<>>)}

\* C19: a keyword supplied with 0 (a bound), False (a boolean keyword), "" (comment,
\* title, description) or {} (a mapping keyword) is set: alone it is accepted,
\* except that minContains/maxContains needs contains; it counts in the rules
\* (0 below a positive minimum fails, recursive_anchor=False next to an anchor
\* fails, definitions={} next to defs fails); and to_dict emits it with that value.
C19_PresenceIsNotTruthiness ==
    last.exc # "none" =>
        \A n \in SuppliedFalsy :
            /\ Serialised =>
                   /\ HasKey(out.d, SpecSpelling[n])
                   /\ Get(out.d, SpecSpelling[n]) = last.kw[n]
            /\ DOMAIN last.kw = {n} =>
                   last.exc = IF n \in {"min_contains", "max_contains"}
                              THEN "ValueError" ELSE "ok"
            /\ (n \in {"min_contains", "max_contains"} /\ ~Has(last.kw, "contains"))
                   => last.exc = "ValueError"
            /\ (n = "recursive_anchor" /\ DOMAIN last.kw \cap {"anchor", "dynamic_anchor"} # {})
                   => last.exc = "ValueError"
            /\ (n \in DefsValued /\ DefsValued \subseteq DOMAIN last.kw)
                   => last.exc = "ValueError"
            /\ \A p \in RangePairs :
                   (n = p.hi /\ DOMAIN last.kw = {p.lo, p.hi} \cup p.with
                       /\ last.kw[p.lo].k = "int" /\ last.kw[p.lo].v > 0)
                       => last.exc = "ValueError"

\* contains with minContains=0: accepted, and emitted as 0
C19_Witness ==
    /\ Serialised
    /\ last.cls = "ArraySchema"
    /\ DOMAIN last.kw = {"contains", "min_contains"}
    /\ SuppliedFalsy = {"min_contains"}
    /\ Get(out.d, "minContains") = PyInt(0)

---------------------------------------------------------------------------
(* C20 *)

\* C20: ArraySchema accepts for items one schema node or a non-empty list of
\* schema nodes only: an empty list, and a list with a value that is not a
\* schema node, make the construction fail.
C20_ItemsNodeOrNonEmptyList ==
    (last.cls = "ArraySchema" /\ Has(last.kw, "items") /\ last.exc = "ok") =>
        \/ IsSchema(last.kw["items"])
        \/ /\ IsList(last.kw["items"])
           /\ last.kw["items"].v # <<>>
           /\ \A i \in 1..Len(last.kw["items"].v) : IsSchema(last.kw["items"].v[i])

---------------------------------------------------------------------------
(* C21 *)

\* C21: anchor and dynamic_anchor, supplied alone as a string, are accepted
\* exactly when the whole string is a letter followed by letters, digits, '-'
\* or '_': a string with any other character anywhere, a trailing newline
\* included, or with a first character that is not a letter, is refused.
C21_AnchorGrammar ==
    \A n \in {"anchor", "dynamic_anchor"} :
        (OnlyKeyword(n) /\ IsStr(last.kw[n])) =>
            (last.exc = "ok" <=> IsFragmentIdentifier(last.kw[n].v))

---------------------------------------------------------------------------
(* C22 *)

\* the last call is ObjectSchema(pattern_properties = a dict with str keys)
IsPatternCall ==
    /\ last.cls = "ObjectSchema"
    /\ DOMAIN last.kw = {"pattern_properties"}
    /\ IsDict(last.kw.pattern_properties)
    /\ \A i \in 1..Len(last.kw.pattern_properties.v) :
           IsStr(last.kw.pattern_properties.v[i][1])

\* the key of entry e is blank or does not compile; its value is not a node
BadKey(e)   == IsBlank(e[1].v) \/ ReCompileRaises(e[1].v)
BadValue(e) == ~IsSchema(e[2])

\* C22: ObjectSchema(pattern_properties=...) fails when any key is blank or is
\* not a valid regular expression ("(a" is refused), succeeds when every key is
\* a valid regular expression mapped to a node, and in the first entry at
\* fault a bad key is reported (ValueError) whatever the value is.
C22_PatternKeys ==
    IsPatternCall =>
        LET es == last.kw.pattern_properties.v
        IN  /\ (\E i \in 1..Len(es) : BadKey(es[i])) => last.exc \in {"ValueError", "TypeError"}
            /\ (\A i \in 1..Len(es) : ~BadKey(es[i]) /\ ~BadValue(es[i])) => last.exc = "ok"
            /\ \A i \in 1..Len(es) :
                   (/\ BadKey(es[i])
                    /\ \A j \in 1..(i - 1) : ~BadKey(es[j]) /\ ~BadValue(es[j]))
                       => last.exc = "ValueError"
            /\ (\E i \in 1..Len(es) : es[i][1] = PyStr(<<"(", "a">>)) => last.exc # "ok"
            /\ (Len(es) = 1 /\ es[1][1] = PyStr(<<"^", "[a-z]", "+", "$">>)
                    /\ IsSchema(es[1][2])) => last.exc = "ok"

\* "^[a-z]+$" mapped to a node was accepted and serialised
C22_Witness ==
    /\ IsPatternCall
    /\ Serialised
    /\ Len(last.kw.pattern_properties.v) = 1
    /\ last.kw.pattern_properties.v[1][1] = PyStr(<<"^", "[a-z]", "+", "$">>)

---------------------------------------------------------------------------
(* C23 *)

\* a node as its own to_dict result, any other value as it is
AsChild(x) == IF IsSchema(x) THEN ToDict(x, <<>>, 1) ELSE x

\* the slots that take nodes; every other slot is a scalar slot
NodeSlots ==
    ListValued \cup DictValued \cup DefsValued \cup NodeValued \cup NodeOrBool \cup {"items"}

\* what a lossless to_dict writes for the value x of slot n. Node slot: a node as
\* its to_dict result, a list or a mapping with its nodes so replaced, in the
\* same order and under the same keys. Scalar slot: x itself.
Lossless(n, x) ==
    IF n \notin NodeSlots THEN x
    ELSE IF IsList(x) THEN PyList([i \in 1..Len(x.v) |-> AsChild(x.v[i])])
    ELSE IF IsDict(x) THEN PyDict([i \in 1..Len(x.v) |-> <<x.v[i][1], AsChild(x.v[i][2])>>])
    ELSE AsChild(x)

\* C23: in the mapping to_dict returns, every keyword of the call appears with
\* the lossless image of the value supplied: child nodes as their own to_dict
\* results, list order and mapping keys kept, scalars and booleans unchanged.
C23_Lossless ==
    Serialised =>
        \A n \in DOMAIN last.kw :
            /\ HasKey(out.d, SpecSpelling[n])
            /\ Get(out.d, SpecSpelling[n]) = Lossless(n, last.kw[n])

\* allOf with a node that has keywords of its own, before a node that has none
C23_Witness ==
    /\ Serialised
    /\ last.cls = "ArraySchema"
    /\ DOMAIN last.kw = {"all_of"}
    /\ last.kw.all_of = PyList(<<Inner("ArraySchema"), Leaf("ArraySchema")>>)
    /\ Get(out.d, "allOf") =
           PyList(<<PyDict(<<<<PyStr(<<"title">>), PyStr(<<"a">>)>>,
                             <<PyStr(<<"deprecated">>), PyBool(TRUE)>>,
                             <<PyStr(<<"type">>), PyStr(<<"array">>)>>>>),
                    OneEntry("type", "array")>>)

---------------------------------------------------------------------------
(* C24 *)

\* how the last call ended
Ended == [exc |-> last.exc, msg |-> last.msg]

\* the rules of rs that kw violates, by position
Violated(rs) == {i \in 1..Len(rs) : rs[i].exc # "ok"}

\* C24: a call that violates several rules raises the error of the first one
\* in the order of the checks, and only that one: a base rule before any rule
\* of ArraySchema or ObjectSchema; the one-reference and one-anchor rules before
\* the value checks of their keywords; "then and else require if" before the
\* kinds of if, then and else; required-in-properties after every other rule
\* of ObjectSchema.
C24_FirstViolatedRule ==
    last.exc # "none" =>
        LET kw   == last.kw
            base == SchemaRules(Restrict(kw, Range(BaseKeywords)))
            all  == RulesOf(last.cls, kw)
        IN  /\ Violated(all) # {} =>
                   Ended = all[CHOOSE i \in Violated(all) : \A j \in Violated(all) : i <= j]
            /\ Violated(base) # {} =>
                   /\ last.attrs = "none"
                   /\ \E i \in Violated(base) : Ended = base[i]
            /\ (/\ Cardinality(DOMAIN kw \cap RefKeywords) >= 2
                /\ CheckUri(kw, "id_", "$id") = Ok
                /\ CheckUri(kw, "schema", "$schema") = Ok)
                   => Ended = ValueError("Only one reference type allowed: $ref, $dynamicRef, or $recursiveRef")
            /\ (/\ Cardinality(DOMAIN kw \cap AnchorKeywords) >= 2
                /\ DOMAIN kw \subseteq AnchorKeywords)
                   => Ended = ValueError("Only one anchor type allowed: $anchor, $dynamicAnchor, or $recursiveAnchor")
            /\ (/\ last.cls # "Schema"
                /\ DOMAIN kw \subseteq {"then", "else_"}
                /\ DOMAIN kw # {})
                   => Ended = ValueError("'then' and 'else' require 'if' to be specified")
            /\ (last.cls = "ObjectSchema" /\ Ended # Ok /\ Ended = CheckRequiredInProperties(kw))
                   => Violated(all) = {Len(all)}

\* a negative minItems next to an $id that is no string: the base rule is reported
C24_Witness ==
    /\ last.cls = "ArraySchema"
    /\ last.kw = [id_ |-> PyInt(1), min_items |-> PyInt(-1)]
    /\ Cardinality(Violated(RulesOf(last.cls, last.kw))) = 2
    /\ Ended = ValueError("$id must be a non-empty string")
    /\ last.attrs = "none"

---------------------------------------------------------------------------
(* C25, C26 *)

\* the last call is Field(...) without type_, and what it returned
IsInferringCall == last.cls = "Field" /\ ~Has(last.kw, "type_")
Returned == held[1].v.cls

\* the type-specific parameters the last call supplies
Specifics == DOMAIN last.kw \cap FieldParams

\* C25: Field without type_ and without any type-specific parameter returns a
\* Boolean builder for a bool default, an Integer builder for an int default
\* that is no bool, a Number builder for a float default, and a String builder
\* for a str default or none.
C25_InferFromDefault ==
    (IsInferringCall /\ Specifics = {}) =>
        Returned = IF ~Has(last.kw, "default") THEN "String"
                   ELSE IF last.kw.default.k = "bool" THEN "Boolean"
                   ELSE IF last.kw.default.k = "int" THEN "Integer"
                   ELSE IF last.kw.default.k = "float" THEN "Number"
                   ELSE "String"

\* C26: Field without type_ (and without default) returns a String builder when
\* the parameters supplied are string-specific, an Array builder when they are
\* array-specific, and an Integer builder when they are numeric parameters with
\* int values, falsy values (0, "", []) included.
C26_InferFromParameters ==
    (IsInferringCall /\ ~Has(last.kw, "default") /\ Specifics # {}) =>
        /\ Specifics \subseteq FieldStringParams => Returned = "String"
        /\ Specifics \subseteq FieldArrayParams => Returned = "Array"
        /\ (Specifics \subseteq FieldIntegerParams /\ \A n \in Specifics : last.kw[n].k = "int")
               => Returned = "Integer"


====
